---- MODULE Spec2Model ----
(***************************************************************************)
(* Backend orchestration and coordination layer of claude-code-flow:       *)
(* dependency ordering (BackendServiceManager.calculateOrder,              *)
(* BackendInitializer.calculateInitializationOrder), the per-service       *)
(* lifecycle state machine (BaseBackendService), the service manager       *)
(* (startAll / stopAll / rollback), the orchestrator's health              *)
(* verification and the coordination engine's resource arbitration.        *)
(***************************************************************************)
EXTENDS Integers, Sequences, FiniteSets, TLC

\* ------------------------------------------------------------------ bounds
MaxDeps == 2          \* longest declared dependency list explored
MaxErrors == 2        \* failures explored per service (errorCount is unbounded)
MaxTimers == 2        \* live interval timers tracked per service
MaxThreads == 2       \* asynchronous calls in flight at once
LifeMaxRestartAttempts == 2  \* config.maxRestartAttempts of the service of SpecLife
MaxAgents == 3
MaxResources == 2
StopMaxRestartAttempts == 1  \* config.maxRestartAttempts of the services of SpecStop
MaxRegDeps == 1       \* longest dependency list in a changing registry (SpecReg)
MaxFailedEvents == 2  \* service:failed events an observer counts between two starts

\* ------------------------------------------------------------------ config
\* DEFAULT_SERVICE_CONFIG, the fields the lifecycle reads
DefaultMaxRestartAttempts == 3
DefaultHealthCheckInterval == 10000
DEFAULT_SERVICE_CONFIG ==
  [maxRestartAttempts |-> DefaultMaxRestartAttempts,
   healthCheckInterval |-> DefaultHealthCheckInterval,
   enableAutoRestart |-> TRUE]

\* ------------------------------------------------------------------ names
NodeNames == {"A", "B", "C"}
NoName == "-"
Agents == 1..MaxAgents
Resources == 1..MaxResources
NoAgent == 0
CoreComponents == <<"logger", "eventBus">>
criticalComponents == {"logger", "config", "eventBus"}
criticalServices == {"terminalManager", "coordinationManager", "memoryManager", "mcpServer"}
BackendServices == <<"terminalManager", "coordinationManager", "memoryManager", "mcpServer">>

VARIABLES
  services,            \* BackendServiceManager.services: names in Map insertion order
  dependencyGraph,     \* BackendServiceManager.dependencyGraph: name -> declared deps
  startOrder,          \* BackendServiceManager.startOrder
  stopOrder,           \* BackendServiceManager.stopOrder
  components,          \* BackendInitializer.components: names in Map insertion order
  componentDeps,       \* IBackendComponent.dependencies of each registered component
  initializationOrder, \* BackendInitializer.initializationOrder
  outcome,             \* how the last synchronous call ended: [op, ok, culprit]
  isRequired,          \* isRequired of each service (or component) object
  config,              \* BaseBackendService.config (the ServiceConfig passed in)
  state,               \* BaseBackendService.state of each service object
  errorCount,          \* metrics.errorCount
  restartCount,        \* metrics.restartCount
  lastError,           \* metrics.lastError ("null" or the failure's cause)
  timers,              \* live setInterval health-check timers of each service
  handle,              \* whether this.healthCheckInterval holds a timer handle
  lastEvent,           \* the event most recently emitted on the event bus
  thr,                 \* the asynchronous calls in flight, each a call stack
  returned,            \* the asynchronous call that completed last: [op, svc, res]
  coordinationManager, \* CoordinationService.coordinationManager is set
  coordinationConfig,  \* the CoordinationConfig passed to the service
  holder,              \* Resource: its current holder (an agent or NoAgent)
  waitQueue,           \* Resource: its FIFO wait queue of agents
  granted,             \* <<agent, resource>>: acquireResource resolved, not yet released
  lastCall,            \* how the last coordination call ended: [op, agent, resource, res]
  initializedComponents, \* BackendInitializer.initializedComponents (a Set: insertion order)
  initialized,         \* BackendInitializer.initialized
  orchInitialized,     \* BackendOrchestrator.initialized
  orchestratorService, \* BackendOrchestrator.orchestratorService is set
  shutdownCalls,       \* component.shutdown() calls of the last cleanup or shutdown()
  health,              \* getServiceHealth: the health record of the latest call
  failedEvents,        \* per observed service: service:failed events since its last start()
  shutdownInProgress   \* BackendInitializer.shutdownInProgress

regVars == <<services, dependencyGraph, startOrder, stopOrder>>
cmpVars == <<components, componentDeps, initializationOrder>>
svcVars == <<isRequired, config, state, errorCount, restartCount, lastError, timers,
             handle, lastEvent, thr, returned, health, failedEvents>>
orchVars == <<initializedComponents, initialized, orchInitialized, orchestratorService,
              shutdownCalls, shutdownInProgress>>
coordVars == <<coordinationManager, coordinationConfig, holder, waitQueue, granted,
               lastCall>>
vars == <<services, dependencyGraph, startOrder, stopOrder,
          components, componentDeps, initializationOrder, outcome,
          isRequired, config, state, errorCount, restartCount, lastError, timers,
          handle, lastEvent, thr, returned,
          coordinationManager, coordinationConfig, holder, waitQueue, granted, lastCall,
          initializedComponents, initialized, orchInitialized, orchestratorService,
          shutdownCalls, health, failedEvents, shutdownInProgress>>

\* ------------------------------------------------------------------ helpers
Range(s) == {s[i] : i \in DOMAIN s}

Reverse(s) == [i \in 1..Len(s) |-> s[Len(s) + 1 - i]]

IndexOf(s, x) == IF x \in Range(s) THEN CHOOSE i \in DOMAIN s : s[i] = x ELSE 0

\* Dependency lists as arrays of distinct names, at most MaxDeps long.
DepLists ==
  {d \in UNION {[1..k -> NodeNames] : k \in 0..MaxDeps} :
     \A i, j \in DOMAIN d : i # j => d[i] # d[j]}

\* ------------------------------------------------------------------ ordering
NewWalk == [visited |-> {}, visiting |-> {}, order |-> <<>>, culprit |-> NoName]

RECURSIVE visit(_, _, _, _)
RECURSIVE visitDependencies(_, _, _, _, _)
RECURSIVE visitDependenciesUnregistered(_, _, _, _, _)

\* a faulty visit that appends the node before recursing into its dependencies
RECURSIVE visitAppendFirst(_, _, _, _)
visitAppendFirst(registered, graph, serviceName, w) ==
  IF w.culprit # NoName THEN w
  ELSE IF serviceName \in w.visiting THEN [w EXCEPT !.culprit = serviceName]
  ELSE IF serviceName \in w.visited THEN w
  ELSE LET w1 == [w EXCEPT !.visiting = @ \cup {serviceName},
                           !.order = Append(@, serviceName)]
           w2 == visitDependencies(registered, graph,
                                   IF serviceName \in DOMAIN graph
                                     THEN graph[serviceName] ELSE <<>>, 1, w1)
       IN IF w2.culprit # NoName THEN w2
          ELSE [w2 EXCEPT !.visiting = @ \ {serviceName},
                          !.visited = @ \cup {serviceName}]

\* a faulty visit that treats a node still being visited as already done
RECURSIVE visitNoCycleCheck(_, _, _, _)
visitNoCycleCheck(registered, graph, serviceName, w) ==
  IF w.culprit # NoName THEN w
  ELSE IF serviceName \in w.visiting \cup w.visited THEN w
  ELSE LET w1 == [w EXCEPT !.visiting = @ \cup {serviceName}]
           w2 == visitDependencies(registered, graph,
                                   IF serviceName \in DOMAIN graph
                                     THEN graph[serviceName] ELSE <<>>, 1, w1)
       IN [w2 EXCEPT !.visiting = @ \ {serviceName},
                     !.visited = @ \cup {serviceName},
                     !.order = Append(@, serviceName)]

\* calculateOrder's inner visit(serviceName): a throw is carried as w.culprit
visit(registered, graph, serviceName, w) ==
  IF w.culprit # NoName THEN w
  ELSE IF serviceName \in w.visiting THEN [w EXCEPT !.culprit = serviceName]
  ELSE IF serviceName \in w.visited THEN w
  ELSE LET w1 == [w EXCEPT !.visiting = @ \cup {serviceName}]
           w2 == visitDependencies(registered, graph,
                                   IF serviceName \in DOMAIN graph
                                     THEN graph[serviceName] ELSE <<>>, 1, w1)
       IN IF w2.culprit # NoName THEN w2
          ELSE [w2 EXCEPT !.visiting = @ \ {serviceName},
                          !.visited = @ \cup {serviceName},
                          !.order = Append(@, serviceName)]

\* a faulty loop that visits a dependency whether it is registered or not
visitDependenciesUnregistered(registered, graph, deps, i, w) ==
  IF i > Len(deps) \/ w.culprit # NoName THEN w
  ELSE visitDependenciesUnregistered(registered, graph, deps, i + 1,
         visit(registered, graph, deps[i], w))

\* the loop over a node's dependencies: unregistered names are skipped
visitDependencies(registered, graph, deps, i, w) ==
  IF i > Len(deps) \/ w.culprit # NoName THEN w
  ELSE visitDependencies(registered, graph, deps, i + 1,
         IF deps[i] \in registered
           THEN visit(registered, graph, deps[i], w)
           ELSE w)

RECURSIVE visitAllLastFirst(_, _, _, _)
\* a faulty loop that walks the registered names from the last to the first
visitAllLastFirst(names, graph, i, w) ==
  IF i > Len(names) \/ w.culprit # NoName THEN w
  ELSE visitAllLastFirst(names, graph, i + 1,
         IF names[Len(names) + 1 - i] \in w.visited THEN w
         ELSE visit(Range(names), graph, names[Len(names) + 1 - i], w))

RECURSIVE visitAll(_, _, _, _)
\* "for (const serviceName of this.services.keys()) if (!visited.has) visit"
visitAll(names, graph, i, w) ==
  IF i > Len(names) \/ w.culprit # NoName THEN w
  ELSE visitAll(names, graph, i + 1,
         IF names[i] \in w.visited THEN w
         ELSE visit(Range(names), graph, names[i], w))

\* BackendServiceManager.calculateOrder: [ok, order, culprit]
calculateOrder(names, graph) ==
  LET w == visitAll(names, graph, 1, NewWalk)
  IN [ok |-> w.culprit = NoName, order |-> w.order, culprit |-> w.culprit]

RECURSIVE visitComponent(_, _, _, _)
RECURSIVE visitComponentDependencies(_, _, _, _, _)

\* calculateInitializationOrder's inner visit(component)
visitComponent(registered, deps, name, w) ==
  IF w.culprit # NoName THEN w
  ELSE IF name \in w.visiting THEN [w EXCEPT !.culprit = name]
  ELSE IF name \in w.visited THEN w
  ELSE LET w1 == [w EXCEPT !.visiting = @ \cup {name}]
           w2 == visitComponentDependencies(registered, deps, deps[name], 1, w1)
       IN IF w2.culprit # NoName THEN w2
          ELSE [w2 EXCEPT !.visiting = @ \ {name},
                          !.visited = @ \cup {name},
                          !.order = Append(@, name)]

\* "for (const depName of dependencies)": a missing component is warned about
visitComponentDependencies(registered, deps, list, i, w) ==
  IF i > Len(list) \/ w.culprit # NoName THEN w
  ELSE visitComponentDependencies(registered, deps, list, i + 1,
         IF list[i] \in registered
           THEN visitComponent(registered, deps, list[i], w)
           ELSE w)

RECURSIVE visitAllComponents(_, _, _, _)
visitAllComponents(names, deps, i, w) ==
  IF i > Len(names) \/ w.culprit # NoName THEN w
  ELSE visitAllComponents(names, deps, i + 1,
         IF names[i] \in w.visited THEN w
         ELSE visitComponent(Range(names), deps, names[i], w))

\* BackendInitializer.calculateInitializationOrder: [ok, order, culprit]
calculateInitializationOrder(names, deps) ==
  LET w == visitAllComponents(names, deps, 1, NewWalk)
  IN [ok |-> w.culprit = NoName, order |-> w.order, culprit |-> w.culprit]

\* ------------------------------------------------------------------ registry
Ok(op) == [op |-> op, ok |-> TRUE, culprit |-> NoName]
Threw(op, who) == [op |-> op, ok |-> FALSE, culprit |-> who]

\* a faulty store that keeps the start order as the stop order
storeOrderNoReverse(r, op) ==
  IF r.ok
    THEN /\ startOrder' = r.order
         /\ stopOrder' = r.order
         /\ outcome' = Ok(op)
    ELSE /\ UNCHANGED <<startOrder, stopOrder>>
         /\ outcome' = Threw(op, r.culprit)

\* calculateOrder's last two statements, reached only when visit did not throw
storeOrder(r, op) ==
  IF r.ok
    THEN /\ startOrder' = r.order
         /\ stopOrder' = Reverse(r.order)
         /\ outcome' = Ok(op)
    ELSE /\ UNCHANGED <<startOrder, stopOrder>>
         /\ outcome' = Threw(op, r.culprit)

\* BackendServiceManager.registerService
registerService(name, deps) ==
  LET services1 == IF name \in Range(services) THEN services
                   ELSE Append(services, name)
      graph1 == [n \in DOMAIN dependencyGraph \cup {name} |->
                   IF n = name THEN deps ELSE dependencyGraph[n]]
  IN /\ services' = services1
     /\ dependencyGraph' = graph1
     /\ storeOrder(calculateOrder(services1, graph1), "registerService")

\* BackendServiceManager.unregisterService: an unknown or Running service
\* is refused; otherwise the entry and its edges go and the order is
\* recomputed
unregisterService(serviceName) ==
  IF serviceName \notin Range(services) \/ state[serviceName] = "running"
    THEN /\ outcome' = Threw("unregisterService", serviceName)
         /\ UNCHANGED regVars
    ELSE LET services1 == SelectSeq(services, LAMBDA n : n # serviceName)
             graph1 == [n \in DOMAIN dependencyGraph \ {serviceName} |->
                          dependencyGraph[n]]
         IN /\ services' = services1
            /\ dependencyGraph' = graph1
            /\ storeOrder(calculateOrder(services1, graph1), "unregisterService")

\* BackendInitializer.registerComponent
registerComponent(name, deps) ==
  /\ components' = IF name \in Range(components) THEN components
                   ELSE Append(components, name)
  /\ componentDeps' = [n \in DOMAIN componentDeps \cup {name} |->
                         IF n = name THEN deps ELSE componentDeps[n]]
  /\ outcome' = Ok("registerComponent")
  /\ UNCHANGED initializationOrder

\* BackendInitializer.initialize, its first step: the order is computed
\* and stored, or the cycle error is raised
computeInitializationOrder ==
  LET r == calculateInitializationOrder(components, componentDeps)
  IN /\ IF r.ok
          THEN /\ initializationOrder' = r.order
               /\ outcome' = Ok("calculateInitializationOrder")
          ELSE /\ UNCHANGED initializationOrder
               /\ outcome' = Threw("calculateInitializationOrder", r.culprit)
     /\ UNCHANGED <<components, componentDeps>>

RegInit ==
  /\ services = <<>>
  /\ dependencyGraph = <<>>
  /\ startOrder = <<>>
  /\ stopOrder = <<>>

CmpInit ==
  /\ components = <<>>
  /\ componentDeps = <<>>
  /\ initializationOrder = <<>>
  /\ initializedComponents = <<>>
  /\ initialized = FALSE
  /\ shutdownInProgress = FALSE
  /\ shutdownCalls = <<>>

\* the BackendOrchestrator fields as constructed
OrchNew ==
  /\ orchInitialized = FALSE
  /\ orchestratorService = FALSE

\* ------------------------------------------------------------------ lifecycle
\* The asynchronous code is run one resumption at a time: a step executes
\* from one await to the next, across calls and returns.  W is the mutable
\* world the step works on; a thread's stack holds the suspended calls
\* (innermost last), each frame [fn, at, svc, list, i].
Threads == 1..MaxThreads

World ==
  [state |-> state, errorCount |-> errorCount, restartCount |-> restartCount,
   lastError |-> lastError, timers |-> timers, handle |-> handle,
   lastEvent |-> lastEvent, thr |-> thr, returned |-> returned,
   services |-> services, dependencyGraph |-> dependencyGraph,
   startOrder |-> startOrder, stopOrder |-> stopOrder,
   components |-> components, componentDeps |-> componentDeps,
   initializationOrder |-> initializationOrder,
   initializedComponents |-> initializedComponents, initialized |-> initialized,
   orchInitialized |-> orchInitialized, orchestratorService |-> orchestratorService,
   shutdownCalls |-> shutdownCalls, health |-> health,
   failedEvents |-> failedEvents, shutdownInProgress |-> shutdownInProgress]

Apply(W) ==
  /\ state' = W.state
  /\ errorCount' = W.errorCount
  /\ restartCount' = W.restartCount
  /\ lastError' = W.lastError
  /\ timers' = W.timers
  /\ handle' = W.handle
  /\ lastEvent' = W.lastEvent
  /\ thr' = W.thr
  /\ returned' = W.returned
  /\ services' = W.services
  /\ dependencyGraph' = W.dependencyGraph
  /\ startOrder' = W.startOrder
  /\ stopOrder' = W.stopOrder
  /\ components' = W.components
  /\ componentDeps' = W.componentDeps
  /\ initializationOrder' = W.initializationOrder
  /\ initializedComponents' = W.initializedComponents
  /\ initialized' = W.initialized
  /\ orchInitialized' = W.orchInitialized
  /\ orchestratorService' = W.orchestratorService
  /\ shutdownCalls' = W.shutdownCalls
  /\ health' = W.health
  /\ failedEvents' = W.failedEvents
  /\ shutdownInProgress' = W.shutdownInProgress

Frame(fn, at, svc) == [fn |-> fn, at |-> at, svc |-> svc, list |-> <<>>, i |-> 0]
LoopFrame(fn, at, list) == [fn |-> fn, at |-> at, svc |-> NoName, list |-> list, i |-> 1]
IdleThread == [op |-> "idle", svc |-> NoName, stack |-> <<>>]

Stack(W, t) == W.thr[t].stack
Top(W, t) == Stack(W, t)[Len(Stack(W, t))]
Push(W, t, f) == [W EXCEPT !.thr[t].stack = Append(@, f)]
Pop(W, t) == [W EXCEPT !.thr[t].stack = SubSeq(@, 1, Len(@) - 1)]
SetTop(W, t, f) == [W EXCEPT !.thr[t].stack[Len(Stack(W, t))] = f]

\* BackendServiceManager.registerService on the world W
registerServiceIn(W, name, deps) ==
  LET services1 == IF name \in Range(W.services) THEN W.services
                   ELSE Append(W.services, name)
      graph1 == [n \in DOMAIN W.dependencyGraph \cup {name} |->
                   IF n = name THEN deps ELSE W.dependencyGraph[n]]
      r == calculateOrder(services1, graph1)
  IN [W EXCEPT !.services = services1,
               !.dependencyGraph = graph1,
               !.startOrder = IF r.ok THEN r.order ELSE @,
               !.stopOrder = IF r.ok THEN Reverse(r.order) ELSE @]

\* BackendOrchestrator.areRequiredServicesRunning
areRequiredServicesRunning(W) ==
  \A n \in criticalServices : n \in Range(W.services) /\ W.state[n] = "running"

\* BackendOrchestrator.createOrchestratorService: no await, so it runs to
\* its end inside the event handler
createOrchestratorService(W) ==
  registerServiceIn([W EXCEPT !.orchestratorService = TRUE], "orchestrator",
                    <<"logger", "eventBus", "terminalManager", "memoryManager",
                      "coordinationManager", "mcpServer">>)

\* BackendOrchestrator.checkAndCreateOrchestrator, the service:started handler
checkAndCreateOrchestrator(W) ==
  IF ~W.orchestratorService /\ areRequiredServicesRunning(W)
    THEN createOrchestratorService(W)
    ELSE W

\* eventBus.emit: the handlers log, but for service:started; an observer of
\* the bus counts the service:failed events of the services it watches
emit(W, s, type) ==
  LET W1 == [W EXCEPT !.lastEvent = <<s, type>>]
  IN IF type = "service:started" THEN checkAndCreateOrchestrator(W1)
     ELSE IF type = "service:failed" /\ s \in DOMAIN W.failedEvents
       THEN [W1 EXCEPT !.failedEvents[s] = IF @ < MaxFailedEvents THEN @ + 1 ELSE @]
     ELSE W1

\* BaseBackendService.startHealthChecks
startHealthChecks(W, s) ==
  IF config.healthCheckInterval <= 0 THEN W
  ELSE [W EXCEPT !.timers[s] = IF @ < MaxTimers THEN @ + 1 ELSE @,
                 !.handle[s] = TRUE]

\* BaseBackendService.stopHealthChecks
stopHealthChecks(W, s) ==
  IF W.handle[s]
    THEN [W EXCEPT !.timers[s] = IF @ > 0 THEN @ - 1 ELSE 0, !.handle[s] = FALSE]
    ELSE W

RECURSIVE Deliver(_, _, _)
RECURSIVE startAllLoop(_, _)
RECURSIVE rollbackLoop(_, _)
RECURSIVE stopAllLoop(_, _)

\* BaseBackendService.start, from the call to the first await
startEnter(W, t, s) ==
  IF W.state[s] = "running" THEN Deliver(W, t, "ok")
  ELSE IF W.state[s] = "starting" THEN Deliver(W, t, "ServiceStartupError")
  ELSE Push([W EXCEPT !.state[s] = "starting",
                      !.failedEvents = [n \in DOMAIN @ |-> IF n = s THEN 0 ELSE @[n]]],
            t, Frame("start", "beforeStart", s))

\* a faulty catch block that forgets the error metrics
startCatchNoMetrics(W, t, cause) ==
  LET s == Top(W, t).svc
  IN Deliver(Pop(emit([W EXCEPT !.state[s] = "error"], s, "service:error"), t),
             t, "ServiceStartupError")

\* BaseBackendService.start, the catch block
startCatch(W, t, cause) ==
  LET s == Top(W, t).svc
      W1 == [W EXCEPT !.state[s] = "error",
                      !.errorCount[s] = @ + 1,
                      !.lastError[s] = cause]
  IN Deliver(Pop(emit(W1, s, "service:error"), t), t, "ServiceStartupError")

\* BaseBackendService.start, after the afterStart hook
startFinish(W, t) ==
  LET s == Top(W, t).svc
      W1 == startHealthChecks([W EXCEPT !.state[s] = "running"], s)
  IN Deliver(Pop(emit(W1, s, "service:started"), t), t, "ok")

\* BaseBackendService.start resumed at an await with outcome o
startResume(W, t, o) ==
  LET f == Top(W, t)
  IN IF o # "ok" THEN startCatch(W, t, o)
     ELSE IF f.at = "beforeStart" THEN SetTop(W, t, [f EXCEPT !.at = "doStart"])
     ELSE IF f.at = "doStart" THEN SetTop(W, t, [f EXCEPT !.at = "afterStart"])
     ELSE startFinish(W, t)

\* BaseBackendService.stop, from the call to the first await
stopEnter(W, t, s) ==
  IF W.state[s] = "stopped" THEN Deliver(W, t, "ok")
  ELSE IF W.state[s] = "stopping" THEN Deliver(W, t, "ServiceShutdownError")
  ELSE Push(stopHealthChecks([W EXCEPT !.state[s] = "stopping"], s),
            t, Frame("stop", "beforeStop", s))

\* BaseBackendService.stop, the catch block
stopCatch(W, t, cause) ==
  LET s == Top(W, t).svc
      W1 == [W EXCEPT !.state[s] = "error",
                      !.errorCount[s] = @ + 1,
                      !.lastError[s] = cause]
  IN Deliver(Pop(W1, t), t, "ServiceShutdownError")

\* BaseBackendService.stop resumed at an await with outcome o
stopResume(W, t, o) ==
  LET f == Top(W, t)
      s == f.svc
  IN IF o # "ok" THEN stopCatch(W, t, o)
     ELSE IF f.at = "beforeStop" THEN SetTop(W, t, [f EXCEPT !.at = "doStop"])
     ELSE IF f.at = "doStop" THEN SetTop(W, t, [f EXCEPT !.at = "afterStop"])
     ELSE Deliver(Pop(emit([W EXCEPT !.state[s] = "stopped"], s, "service:stopped"), t),
                  t, "ok")

\* a faulty restart that counts the attempt before making it
restartEnterCountsFirst(W, t, s) ==
  stopEnter(Push([W EXCEPT !.restartCount[s] = @ + 1], t, Frame("restart", "stop", s)),
            t, s)

\* BaseBackendService.restart, from the call to the first await
restartEnter(W, t, s) == stopEnter(Push(W, t, Frame("restart", "stop", s)), t, s)

\* a faulty callback that restarts an unhealthy service whatever
\* enableAutoRestart says
tickDecideIgnoresAutoRestart(W, t, s, healthy) ==
  IF healthy THEN Deliver(W, t, "ok")
  ELSE IF W.restartCount[s] < config.maxRestartAttempts
    THEN restartEnter(Push(W, t, Frame("tick", "restart", s)), t, s)
  ELSE Deliver(emit([W EXCEPT !.state[s] = "error"], s, "service:failed"), t, "ok")

\* the health-check callback once healthCheck() has answered
tickDecide(W, t, s, healthy) ==
  IF healthy \/ ~config.enableAutoRestart THEN Deliver(W, t, "ok")
  ELSE IF W.restartCount[s] < config.maxRestartAttempts
    THEN restartEnter(Push(W, t, Frame("tick", "restart", s)), t, s)
  ELSE Deliver(emit([W EXCEPT !.state[s] = "error"], s, "service:failed"), t, "ok")

\* the setInterval callback, from the timer firing to the first await
tickEnter(W, t, s) ==
  IF W.state[s] # "running" THEN tickDecide(W, t, s, FALSE)
  ELSE Push(W, t, Frame("tick", "healthCheck", s))

\* a faulty rollback list that keeps the start order
servicesToStopInStartOrder(W, failedService) ==
  LET failedIndex == IndexOf(W.startOrder, failedService)
  IN IF failedIndex = 0 THEN <<>>
     ELSE SubSeq(W.startOrder, 1, failedIndex - 1)

\* BackendServiceManager.stopStartedServices, the list it walks
servicesToStop(W, failedService) ==
  LET failedIndex == IndexOf(W.startOrder, failedService)
  IN IF failedIndex = 0 THEN <<>>
     ELSE Reverse(SubSeq(W.startOrder, 1, failedIndex - 1))

\* BackendOrchestrator.createBackendServices
createBackendServices(W) ==
  LET deps == <<"logger", "eventBus">>
  IN registerServiceIn(registerServiceIn(registerServiceIn(registerServiceIn(
       W, BackendServices[1], deps), BackendServices[2], deps),
          BackendServices[3], deps), BackendServices[4], deps)

\* a faulty catch block that leaves the orchestrator marked initialized
orchCleanupMarksInitialized(W, t) ==
  stopAllLoop(Push(SetTop([W EXCEPT !.orchInitialized = TRUE], t,
                          [Top(W, t) EXCEPT !.at = "cleanup"]), t,
                   LoopFrame("stopAll", "loop", W.stopOrder)), t)

\* BackendOrchestrator.initialize, the catch block: cleanup() awaits stopAll()
orchCleanup(W, t) ==
  stopAllLoop(Push(SetTop(W, t, [Top(W, t) EXCEPT !.at = "cleanup"]), t,
                   LoopFrame("stopAll", "loop", W.stopOrder)), t)

\* BackendOrchestrator.verifySystemHealth, up to await getServiceHealth():
\* the frame keeps the services whose healthCheck() found them Running
verifySystemHealthEnter(W, t) ==
  SetTop(W, t, [Top(W, t) EXCEPT
    !.at = "health",
    !.list = SelectSeq(W.services, LAMBDA n : W.state[n] = "running")])

\* BackendOrchestrator.verifySystemHealth resumed: unhealthy are the
\* services whose doHealthCheck() answered false or threw
verifySystemHealthResume(W, t, unhealthy) ==
  LET healthy == Range(Top(W, t).list) \ unhealthy
      criticalFailures ==
        {n \in criticalServices :
           n \notin healthy \/ n \notin Range(W.services) \/ W.state[n] # "running"}
  IN IF criticalFailures # {} THEN orchCleanup(W, t)
     ELSE Deliver(Pop(emit([W EXCEPT !.orchInitialized = TRUE],
                           NoName, "backend:orchestration_complete"), t), t, "ok")

\* a return (r = "ok") or a throw (r = the error) reaches the caller
Deliver(W, t, r) ==
  IF Stack(W, t) = <<>>
    THEN [W EXCEPT !.returned = [op |-> W.thr[t].op, svc |-> W.thr[t].svc, res |-> r],
                   !.thr[t] = IdleThread]
  ELSE
    LET f == Top(W, t)
    IN CASE f.fn = "restart" /\ f.at = "stop" ->
              IF r = "ok" THEN SetTop(W, t, [f EXCEPT !.at = "delay"])
              ELSE Deliver(Pop(W, t), t, "ServiceError")
         [] f.fn = "restart" /\ f.at = "start" ->
              IF r = "ok"
                THEN Deliver(Pop(emit([W EXCEPT !.restartCount[f.svc] = @ + 1],
                                      f.svc, "service:restarted"), t), t, "ok")
                ELSE Deliver(Pop(W, t), t, "ServiceError")
         [] f.fn = "tick" -> Deliver(Pop(W, t), t, "ok")
         [] f.fn = "startAll" /\ f.at = "start" ->
              IF r = "ok" \/ ~isRequired[f.svc]
                THEN startAllLoop(SetTop(W, t, [f EXCEPT !.at = "loop", !.i = @ + 1]), t)
                ELSE rollbackLoop(SetTop(W, t,
                       [f EXCEPT !.at = "rollback",
                                 !.list = servicesToStop(W, f.svc), !.i = 1]), t)
         [] f.fn = "startAll" /\ f.at = "stop" ->
              rollbackLoop(SetTop(W, t, [f EXCEPT !.at = "rollback", !.i = @ + 1]), t)
         [] f.fn = "stopAll" ->
              stopAllLoop(SetTop(W, t, [f EXCEPT !.at = "loop", !.i = @ + 1]), t)
         [] f.fn = "orchInitialize" /\ f.at = "phase1" ->
              IF r = "ok"
                THEN LET W1 == createBackendServices(W)
                     IN startAllLoop(Push(SetTop(W1, t, [f EXCEPT !.at = "startAll"]), t,
                                          LoopFrame("startAll", "loop", W1.startOrder)), t)
                ELSE orchCleanup(W, t)
         [] f.fn = "orchInitialize" /\ f.at = "startAll" ->
              IF r = "ok" THEN verifySystemHealthEnter(W, t) ELSE orchCleanup(W, t)
         [] f.fn = "orchInitialize" /\ f.at = "cleanup" ->
              Deliver(Pop(W, t), t, "InitializationError")

\* a faulty loop that gives up, without raising, once a service has failed
startAllLoopEndsAtFailure(W, t) ==
  LET f == Top(W, t)
  IN IF f.i > Len(f.list) \/ (f.i > 1 /\ W.state[f.list[f.i - 1]] = "error")
       THEN Deliver(Pop(W, t), t, "ok")
     ELSE IF f.list[f.i] \notin Range(W.services)
       THEN startAllLoop(SetTop(W, t, [f EXCEPT !.i = @ + 1]), t)
     ELSE startEnter(SetTop(W, t, [f EXCEPT !.at = "start", !.svc = f.list[f.i]]),
                     t, f.list[f.i])

\* BackendServiceManager.startAll, the loop over the captured start order
startAllLoop(W, t) ==
  LET f == Top(W, t)
  IN IF f.i > Len(f.list) THEN Deliver(Pop(W, t), t, "ok")
     ELSE IF f.list[f.i] \notin Range(W.services)
       THEN startAllLoop(SetTop(W, t, [f EXCEPT !.i = @ + 1]), t)
     ELSE startEnter(SetTop(W, t, [f EXCEPT !.at = "start", !.svc = f.list[f.i]]),
                     t, f.list[f.i])

\* BackendServiceManager.stopStartedServices, then startAll's throw
rollbackLoop(W, t) ==
  LET f == Top(W, t)
  IN IF f.i > Len(f.list) THEN Deliver(Pop(W, t), t, "ServiceError")
     ELSE IF f.list[f.i] \in Range(W.services) /\ W.state[f.list[f.i]] = "running"
       THEN stopEnter(SetTop(W, t, [f EXCEPT !.at = "stop"]), t, f.list[f.i])
     ELSE rollbackLoop(SetTop(W, t, [f EXCEPT !.i = @ + 1]), t)

\* BackendServiceManager.stopAll, the loop over the captured stop order
stopAllLoop(W, t) ==
  LET f == Top(W, t)
  IN IF f.i > Len(f.list) THEN Deliver(Pop(W, t), t, "ok")
     ELSE IF f.list[f.i] \in Range(W.services) /\ W.state[f.list[f.i]] = "running"
       THEN stopEnter(SetTop(W, t, [f EXCEPT !.at = "stop"]), t, f.list[f.i])
     ELSE stopAllLoop(SetTop(W, t, [f EXCEPT !.i = @ + 1]), t)

\* BackendInitializer.registerComponent on the world W
registerComponentIn(W, name, deps) ==
  [W EXCEPT !.components = IF name \in Range(@) THEN @ ELSE Append(@, name),
            !.componentDeps = [n \in DOMAIN @ \cup {name} |->
                                 IF n = name THEN deps ELSE @[n]]]

\* BackendInitializer.cleanupPartialInitialization up to its await: the
\* map over the Set calls shutdown() on every initialized component at
\* once, in the Set's insertion order, before any of the calls settles
cleanupPartialInitialization(W) ==
  [W EXCEPT !.shutdownCalls = W.initializedComponents]

\* BackendInitializer.initialize, the catch block: it awaits
\* cleanupPartialInitialization() and re-throws
initializeCatch(W, t) ==
  SetTop(cleanupPartialInitialization(W), t, [Top(W, t) EXCEPT !.at = "cleanup"])

\* BackendInitializer.initialize, the loop over initializationOrder
initializeLoop(W, t) ==
  LET f == Top(W, t)
  IN IF f.i > Len(f.list) THEN SetTop(W, t, [f EXCEPT !.at = "health"])
     ELSE SetTop(W, t, [f EXCEPT !.at = "component", !.svc = f.list[f.i]])

\* BackendInitializer.initialize, from the call to the first await
initializeEnter(W, t) ==
  IF W.initialized THEN Deliver(W, t, "InitializationError")
  ELSE LET r == calculateInitializationOrder(W.components, W.componentDeps)
           W1 == Push(W, t, LoopFrame("initialize", "loop", r.order))
       IN IF r.ok THEN initializeLoop([W1 EXCEPT !.initializationOrder = r.order], t)
          ELSE initializeCatch(W1, t)

\* initializeComponent(component) settles: initialized, or failed for
\* good after the retries; only a required component's failure aborts
initializeComponentDone(W, t, ok) ==
  LET f == Top(W, t)
  IN IF ok
       THEN initializeLoop(SetTop([W EXCEPT !.initializedComponents =
                                              IF f.svc \in Range(@) THEN @
                                              ELSE Append(@, f.svc)],
                                  t, [f EXCEPT !.i = @ + 1]), t)
     ELSE IF isRequired[f.svc] THEN initializeCatch(W, t)
     ELSE initializeLoop(SetTop(W, t, [f EXCEPT !.i = @ + 1]), t)

\* a faulty check that looks only at the critical components registered
verifySystemIntegrationRegisteredOnly(W, t) ==
  IF (criticalComponents \cap Range(W.components)) \ Range(W.initializedComponents) # {}
    THEN initializeCatch(W, t)
    ELSE SetTop(W, t, [Top(W, t) EXCEPT !.at = "eventBusTest"])

\* performPostInitializationChecks after the components' health answers:
\* verifySystemIntegration, then the event bus test is awaited
verifySystemIntegration(W, t) ==
  IF criticalComponents \ Range(W.initializedComponents) # {}
    THEN initializeCatch(W, t)
    ELSE SetTop(W, t, [Top(W, t) EXCEPT !.at = "eventBusTest"])

\* BackendInitializer.initialize after the checks: success
initializeFinish(W, t) ==
  Deliver(Pop(emit([W EXCEPT !.initialized = TRUE], NoName, "backend:initialized"), t),
          t, "ok")

\* a faulty cleanup that shuts the components down but forgets to clear
\* the set
cleanupPartialInitializationDoneKeepsSet(W, t) ==
  Deliver(Pop(W, t), t, "InitializationError")

\* cleanupPartialInitialization has settled; the error is re-thrown
cleanupPartialInitializationDone(W, t) ==
  Deliver(Pop([W EXCEPT !.initializedComponents = <<>>], t), t, "InitializationError")

RECURSIVE shutdownLoop(_, _)
\* BackendInitializer.shutdown, the loop over the reversed initialization
\* order and what follows it
shutdownLoop(W, t) ==
  LET f == Top(W, t)
  IN IF f.i > Len(f.list)
       THEN Deliver(Pop(emit([W EXCEPT !.initialized = FALSE,
                                       !.shutdownInProgress = FALSE],
                             NoName, "backend:shutdown"), t), t, "ok")
     ELSE IF f.list[f.i] \notin Range(W.initializedComponents)
               \/ f.list[f.i] \notin Range(W.components)
       THEN shutdownLoop(SetTop(W, t, [f EXCEPT !.i = @ + 1]), t)
     ELSE SetTop([W EXCEPT !.shutdownCalls = Append(@, f.list[f.i])],
                 t, [f EXCEPT !.at = "component", !.svc = f.list[f.i]])

\* BackendInitializer.shutdown, from the call to the first await
shutdownEnter(W, t) ==
  LET W0 == [W EXCEPT !.shutdownCalls = <<>>]
  IN IF W.shutdownInProgress THEN Deliver(W, t, "ok")
     ELSE IF ~W.initialized THEN Deliver(W0, t, "ok")
     ELSE shutdownLoop(Push([W0 EXCEPT !.shutdownInProgress = TRUE], t,
                            LoopFrame("shutdown", "loop",
                                      Reverse(W.initializationOrder))), t)

\* shutdownComponent(component) settles: the component leaves the set, or
\* the failure (a rejection or the shutdown timeout) is logged; the loop
\* goes on either way
shutdownComponentDone(W, t, ok) ==
  LET f == Top(W, t)
      W1 == IF ok THEN [W EXCEPT !.initializedComponents =
                                   SelectSeq(@, LAMBDA c : c # f.svc)]
            ELSE W
  IN shutdownLoop(SetTop(W1, t, [f EXCEPT !.at = "loop", !.i = @ + 1]), t)

\* BackendOrchestrator.initialize, from the call to the first await
orchInitializeEnter(W, t) ==
  IF W.orchInitialized THEN Deliver(W, t, "InitializationError")
  ELSE initializeEnter(
         registerComponentIn(
           registerComponentIn(Push(W, t, Frame("orchInitialize", "phase1", NoName)),
                               CoreComponents[1], <<>>),
           CoreComponents[2], <<"logger">>), t)

\* the coordination service as constructed: no manager, nothing held
CoordNew ==
  /\ holder = [r \in Resources |-> NoAgent]
  /\ waitQueue = [r \in Resources |-> <<>>]
  /\ granted = {}
  /\ lastCall = [op |-> "none", agent |-> NoAgent, resource |-> 0, res |-> "none"]

CoordIdle ==
  /\ coordinationManager = FALSE
  /\ coordinationConfig = [deadlockDetection |-> TRUE]
  /\ CoordNew

\* ------------------------------------------------------------------ steps
\* the service objects as constructed: Stopped, zeroed metrics, no timer
SvcInit(names) ==
  /\ state = [s \in names |-> "stopped"]
  /\ errorCount = [s \in names |-> 0]
  /\ restartCount = [s \in names |-> 0]
  /\ lastError = [s \in names |-> "null"]
  /\ timers = [s \in names |-> 0]
  /\ handle = [s \in names |-> FALSE]
  /\ lastEvent = <<NoName, "none">>
  /\ thr = [t \in Threads |-> IdleThread]
  /\ returned = [op |-> "none", svc |-> NoName, res |-> "none"]
  /\ health = <<>>
  /\ failedEvents = <<>>

Running(t) == thr[t].stack # <<>>
Free(t) == ~Running(t) /\ \A u \in Threads : u < t => Running(u)
Spawn(t, op, s) == [World EXCEPT !.thr[t] = [op |-> op, svc |-> s, stack |-> <<>>]]
AtAwait(t, fn, ats) ==
  /\ Running(t)
  /\ thr[t].stack[Len(thr[t].stack)].fn = fn
  /\ thr[t].stack[Len(thr[t].stack)].at \in ats
TopSvc(t) == thr[t].stack[Len(thr[t].stack)].svc
RECURSIVE Sum(_, _)
Sum(f, S) == IF S = {} THEN 0
             ELSE LET x == CHOOSE x \in S : TRUE IN f[x] + Sum(f, S \ {x})
\* the failures explored in one behaviour are bounded
MayFail(t) == Sum(errorCount, DOMAIN errorCount) < MaxErrors

\* a caller invokes service.start()
CallStart(t, s) == Free(t) /\ Apply(startEnter(Spawn(t, "start", s), t, s))

\* a caller invokes service.stop()
CallStop(t, s) == Free(t) /\ Apply(stopEnter(Spawn(t, "stop", s), t, s))

\* a caller invokes service.restart()
CallRestart(t, s) ==
  /\ Free(t)
  /\ restartCount[s] <= config.maxRestartAttempts
  /\ Apply(restartEnter(Spawn(t, "restart", s), t, s))

\* a live health-check timer of s fires
TimerFires(t, s) ==
  /\ Free(t)
  /\ timers[s] > 0
  /\ Apply(tickEnter(Spawn(t, "tick", s), t, s))

\* beforeStart, doStart or afterStart completes
StartStageDone(t) ==
  /\ AtAwait(t, "start", {"beforeStart", "doStart", "afterStart"})
  /\ Apply(startResume(World, t, "ok"))

\* beforeStart, doStart or afterStart rejects
StartStageFails(t) ==
  /\ AtAwait(t, "start", {"beforeStart", "doStart", "afterStart"})
  /\ MayFail(t)
  /\ Apply(startResume(World, t, "fail"))

\* the startup timeout wins the race against doStart
StartTimesOut(t) ==
  /\ AtAwait(t, "start", {"doStart"})
  /\ MayFail(t)
  /\ Apply(startResume(World, t, "timeout"))

\* beforeStop, doStop or afterStop completes
StopStageDone(t) ==
  /\ AtAwait(t, "stop", {"beforeStop", "doStop", "afterStop"})
  /\ Apply(stopResume(World, t, "ok"))

\* beforeStop, doStop or afterStop rejects
StopStageFails(t) ==
  /\ AtAwait(t, "stop", {"beforeStop", "doStop", "afterStop"})
  /\ MayFail(t)
  /\ Apply(stopResume(World, t, "fail"))

\* the shutdown timeout wins the race against doStop
StopTimesOut(t) ==
  /\ AtAwait(t, "stop", {"doStop"})
  /\ MayFail(t)
  /\ Apply(stopResume(World, t, "timeout"))

\* restart(): the restart delay has elapsed
RestartDelayDone(t) ==
  /\ AtAwait(t, "restart", {"delay"})
  /\ LET f == Top(World, t)
     IN Apply(startEnter(SetTop(World, t, [f EXCEPT !.at = "start"]), t, f.svc))

\* the health-check callback: doHealthCheck() answers
HealthCheckDone(t, healthy) ==
  /\ AtAwait(t, "tick", {"healthCheck"})
  /\ Apply(tickDecide(Pop(World, t), t, TopSvc(t), healthy))

\* a caller invokes backendOrchestrator.initialize()
CallInitialize(t) ==
  /\ Free(t)
  /\ Apply(orchInitializeEnter(Spawn(t, "initialize", NoName), t))

\* a core component's initialize() succeeds (within the retries)
ComponentInitDone(t) ==
  /\ AtAwait(t, "initialize", {"component"})
  /\ Apply(initializeComponentDone(World, t, TRUE))

\* a core component's initialize() fails for good
ComponentInitFails(t) ==
  /\ AtAwait(t, "initialize", {"component"})
  /\ Apply(initializeComponentDone(World, t, FALSE))

\* the components' getHealthStatus() calls have all settled
ComponentHealthDone(t) ==
  /\ AtAwait(t, "initialize", {"health"})
  /\ Apply(verifySystemIntegration(World, t))

\* testEventBusConnectivity settles (a failure is only logged)
EventBusTestDone(t) ==
  /\ AtAwait(t, "initialize", {"eventBusTest"})
  /\ Apply(initializeFinish(World, t))

\* the shutdown() calls of cleanupPartialInitialization have all settled
CleanupDone(t) ==
  /\ AtAwait(t, "initialize", {"cleanup"})
  /\ Apply(cleanupPartialInitializationDone(World, t))

\* getServiceHealth() settles in verifySystemHealth
ServiceHealthDone(t, unhealthy) ==
  /\ AtAwait(t, "orchInitialize", {"health"})
  /\ Apply(verifySystemHealthResume(World, t, unhealthy))

\* ------------------------------------------------------------------ SpecLife
\* One service under any interleaving of start(), stop(), restart() calls
\* and health-check timer callbacks.
LifeServices == {"S"}

LifeInit ==
  /\ RegInit /\ CmpInit /\ outcome = Ok("new")
  /\ isRequired = [s \in LifeServices |-> TRUE]
  /\ config = [DEFAULT_SERVICE_CONFIG EXCEPT
                 !.maxRestartAttempts = LifeMaxRestartAttempts]
  /\ SvcInit(LifeServices)
  /\ CoordIdle /\ OrchNew

Fixed == UNCHANGED <<components, componentDeps, initializationOrder, outcome,
                     isRequired, config, coordVars>>

LifeNext ==
  \E t \in Threads :
    \/ \E s \in LifeServices : CallStart(t, s) /\ Fixed
    \/ \E s \in LifeServices : CallStop(t, s) /\ Fixed
    \/ \E s \in LifeServices : CallRestart(t, s) /\ Fixed
    \/ \E s \in LifeServices : TimerFires(t, s) /\ Fixed
    \/ StartStageDone(t) /\ Fixed
    \/ StartStageFails(t) /\ Fixed
    \/ StartTimesOut(t) /\ Fixed
    \/ StopStageDone(t) /\ Fixed
    \/ StopStageFails(t) /\ Fixed
    \/ StopTimesOut(t) /\ Fixed
    \/ RestartDelayDone(t) /\ Fixed
    \/ \E healthy \in BOOLEAN : HealthCheckDone(t, healthy) /\ Fixed

SpecLife == LifeInit /\ [][LifeNext]_vars

\* ------------------------------------------------------------------ SpecTicks
\* One service that is started once and from then on driven by its
\* health-check timer callbacks only: every restart() is one a failing
\* health check asked for.  A callback that is still awaiting does not keep
\* the timer from firing again.
Quiet == \A t \in Threads : ~Running(t)

\* the owner's only call: the first start()
FirstStart(t, s) ==
  /\ Quiet
  /\ returned.op = "none"
  /\ CallStart(t, s)

TicksNext ==
  \E t \in Threads :
    \/ \E s \in LifeServices : FirstStart(t, s) /\ Fixed
    \/ \E s \in LifeServices : TimerFires(t, s) /\ Fixed
    \/ StartStageDone(t) /\ Fixed
    \/ StartStageFails(t) /\ Fixed
    \/ StartTimesOut(t) /\ Fixed
    \/ StopStageDone(t) /\ Fixed
    \/ StopStageFails(t) /\ Fixed
    \/ StopTimesOut(t) /\ Fixed
    \/ RestartDelayDone(t) /\ Fixed
    \/ \E healthy \in BOOLEAN : HealthCheckDone(t, healthy) /\ Fixed

SpecTicks == LifeInit /\ [][TicksNext]_vars

\* ------------------------------------------------------------------ SpecScenarioE
\* SpecTicks with the default configuration (maxRestartAttempts = 3): the
\* service is started once and then left to its health-check timer.
ScenarioEInit ==
  /\ RegInit /\ CmpInit /\ outcome = Ok("new")
  /\ isRequired = [s \in LifeServices |-> TRUE]
  /\ config = DEFAULT_SERVICE_CONFIG
  /\ SvcInit(LifeServices)
  /\ CoordIdle /\ OrchNew

SpecScenarioE == ScenarioEInit /\ [][TicksNext]_vars

\* ------------------------------------------------------------------ SpecMgr
\* A BackendServiceManager over the services of Scenario A (A; B needing A;
\* C needing B), required or not, registered in any order; one caller
\* runs startAll() and stopAll(), every stage of every start() and stop()
\* succeeding, failing or timing out.
MgrServices == {"A", "B", "C"}
MgrDependencies == [s \in MgrServices |->
                      IF s = "B" THEN <<"A">> ELSE IF s = "C" THEN <<"B">> ELSE <<>>]

MgrInit ==
  /\ RegInit /\ CmpInit /\ outcome = Ok("new")
  /\ isRequired \in [MgrServices -> BOOLEAN]
  /\ config = DEFAULT_SERVICE_CONFIG
  /\ SvcInit(MgrServices)
  /\ CoordIdle /\ OrchNew

\* serviceManager.registerService(service), before anything is started
MgrRegister(s) ==
  /\ Quiet
  /\ returned.op = "none"
  /\ s \notin Range(services)
  /\ registerService(s, MgrDependencies[s])
  /\ UNCHANGED <<cmpVars, svcVars, coordVars, orchVars>>

\* a caller invokes serviceManager.startAll()
CallStartAll(t) ==
  /\ Quiet /\ Free(t)
  /\ services # <<>>
  /\ Apply(startAllLoop(Push(Spawn(t, "startAll", NoName), t,
                             LoopFrame("startAll", "loop", startOrder)), t))

\* a caller invokes serviceManager.stopAll()
CallStopAll(t) ==
  /\ Quiet /\ Free(t)
  /\ returned.op # "none"
  /\ Apply(stopAllLoop(Push(Spawn(t, "stopAll", NoName), t,
                            LoopFrame("stopAll", "loop", stopOrder)), t))

MgrNext ==
  \/ \E s \in MgrServices : MgrRegister(s)
  \/ \E t \in Threads :
       \/ CallStartAll(t) /\ Fixed
       \/ CallStopAll(t) /\ Fixed
       \/ StartStageDone(t) /\ Fixed
       \/ StartStageFails(t) /\ Fixed
       \/ StartTimesOut(t) /\ Fixed
       \/ StopStageDone(t) /\ Fixed
       \/ StopStageFails(t) /\ Fixed
       \/ StopTimesOut(t) /\ Fixed

SpecMgr == MgrInit /\ [][MgrNext]_vars

\* ------------------------------------------------------------------ SpecStop
\* A manager over A and B (which needs A), both required, with the
\* health-check timers of the started services live: timer callbacks and
\* the restarts they ask for run alongside startAll() and stopAll().  Every
\* start succeeds; a stage of stop() may fail.
StopServices == {"A", "B"}

StopInit ==
  /\ RegInit /\ CmpInit /\ outcome = Ok("new")
  /\ isRequired = [s \in StopServices |-> TRUE]
  /\ config = [DEFAULT_SERVICE_CONFIG EXCEPT
                 !.maxRestartAttempts = StopMaxRestartAttempts]
  /\ SvcInit(StopServices)
  /\ CoordIdle /\ OrchNew

\* a caller invokes serviceManager.stopAll() while timer callbacks may be
\* in flight
CallStopAllAmidTicks(t) ==
  /\ Free(t)
  /\ returned.op # "none"
  /\ \A u \in Threads : thr[u].op \notin {"startAll", "stopAll"}
  /\ Apply(stopAllLoop(Push(Spawn(t, "stopAll", NoName), t,
                            LoopFrame("stopAll", "loop", stopOrder)), t))

StopNext ==
  \/ \E s \in StopServices : MgrRegister(s)
  \/ \E t \in Threads :
       \/ CallStartAll(t) /\ Fixed
       \/ CallStopAllAmidTicks(t) /\ Fixed
       \/ \E s \in StopServices : TimerFires(t, s) /\ Fixed
       \/ \E healthy \in BOOLEAN : HealthCheckDone(t, healthy) /\ Fixed
       \/ RestartDelayDone(t) /\ Fixed
       \/ StartStageDone(t) /\ Fixed
       \/ StopStageDone(t) /\ Fixed
       \/ StopStageFails(t) /\ Fixed

SpecStop == StopInit /\ [][StopNext]_vars

\* ------------------------------------------------------------------ SpecOrch
\* BackendOrchestrator.initialize() on a freshly constructed orchestrator,
\* called again at will, every awaited call succeeding or failing.
OrchServices == criticalServices \cup {"orchestrator"}

OrchInit ==
  /\ RegInit /\ CmpInit /\ outcome = Ok("new")
  /\ isRequired = [s \in OrchServices \cup Range(CoreComponents) |-> TRUE]
  /\ config = DEFAULT_SERVICE_CONFIG
  /\ SvcInit(OrchServices)
  /\ CoordIdle /\ OrchNew

OrchFixed == UNCHANGED <<outcome, isRequired, config, coordVars>>

OrchNext ==
  \E t \in Threads :
    \/ CallInitialize(t) /\ OrchFixed
    \/ ComponentInitDone(t) /\ OrchFixed
    \/ ComponentInitFails(t) /\ OrchFixed
    \/ ComponentHealthDone(t) /\ OrchFixed
    \/ CleanupDone(t) /\ OrchFixed
    \/ EventBusTestDone(t) /\ OrchFixed
    \/ \E unhealthy \in SUBSET OrchServices : ServiceHealthDone(t, unhealthy) /\ OrchFixed
    \/ \E s \in OrchServices : TimerFires(t, s) /\ OrchFixed
    \/ \E healthy \in BOOLEAN : HealthCheckDone(t, healthy) /\ OrchFixed
    \/ RestartDelayDone(t) /\ OrchFixed
    \/ StartStageDone(t) /\ OrchFixed
    \/ StartStageFails(t) /\ OrchFixed
    \/ StartTimesOut(t) /\ OrchFixed
    \/ StopStageDone(t) /\ OrchFixed
    \/ StopStageFails(t) /\ OrchFixed
    \/ StopTimesOut(t) /\ OrchFixed

SpecOrch == OrchInit /\ [][OrchNext]_vars

\* initializeCoreComponents registers logger and eventBus only, while
\* verifySystemIntegration also requires config: initialize() never gets
\* past its first phase, never returns, and leaves the manager empty
InitializeStopsInPhaseOne ==
  /\ services = <<>>
  /\ ~initialized /\ ~orchInitialized
  /\ returned.op = "initialize" => returned.res = "InitializationError"
  /\ \A t \in Threads :
       thr[t].stack # <<>> => thr[t].stack[1].at \in {"phase1", "cleanup"}

\* ------------------------------------------------------------------ SpecPhaseOne
\* BackendOrchestrator.initialize() restricted to the steps it can take:
\* InitializeStopsInPhaseOne shows that under SpecOrch no other step is
\* ever enabled.
PhaseOneNext ==
  \E t \in Threads :
    \/ CallInitialize(t) /\ OrchFixed
    \/ ComponentInitDone(t) /\ OrchFixed
    \/ ComponentInitFails(t) /\ OrchFixed
    \/ ComponentHealthDone(t) /\ OrchFixed
    \/ CleanupDone(t) /\ OrchFixed

SpecPhaseOne == OrchInit /\ [][PhaseOneNext]_vars

\* ------------------------------------------------------------------ SpecInit
\* A BackendInitializer of its own: the components logger, config and
\* eventBus (which needs logger), each required or optional, registered in
\* any order and number; initialize() is called one call at a time, every
\* component initialization succeeding or failing.
InitComponents == {"logger", "config", "eventBus"}
InitDependencies == [c \in InitComponents |->
                       IF c = "eventBus" THEN <<"logger">> ELSE <<>>]

InitInit ==
  /\ RegInit /\ CmpInit /\ outcome = Ok("new")
  /\ isRequired \in [InitComponents -> BOOLEAN]
  /\ config = DEFAULT_SERVICE_CONFIG
  /\ SvcInit({})
  /\ CoordIdle /\ OrchNew

InitFixed == UNCHANGED <<outcome, isRequired, config, coordVars>>

\* initializer.registerComponent(component)
InitRegister(c) ==
  /\ Quiet
  /\ c \notin Range(components)
  /\ registerComponent(c, InitDependencies[c])
  /\ UNCHANGED <<regVars, svcVars, coordVars, orchVars>>

\* a caller invokes initializer.initialize()
CallInitializerInitialize(t) ==
  /\ Quiet /\ Free(t)
  /\ Apply(initializeEnter(Spawn(t, "initializer.initialize", NoName), t))

InitNext ==
  \/ \E c \in InitComponents : InitRegister(c)
  \/ \E t \in Threads :
       \/ CallInitializerInitialize(t) /\ InitFixed
       \/ ComponentInitDone(t) /\ InitFixed
       \/ ComponentInitFails(t) /\ InitFixed
       \/ ComponentHealthDone(t) /\ InitFixed
       \/ EventBusTestDone(t) /\ InitFixed
       \/ CleanupDone(t) /\ InitFixed

SpecInit == InitInit /\ [][InitNext]_vars

\* ------------------------------------------------------------------ SpecReg
\* A BackendServiceManager whose registry changes at will: services with
\* any declared dependencies are registered, registered again and
\* unregistered.  A service object may have been started by its owner
\* before it is handed to the manager.
RegistryInit ==
  /\ RegInit /\ CmpInit /\ outcome = Ok("new")
  /\ isRequired = [s \in NodeNames |-> TRUE]
  /\ config = DEFAULT_SERVICE_CONFIG
  /\ \E up \in SUBSET {"A"} :
       /\ state = [s \in NodeNames |-> IF s \in up THEN "running" ELSE "stopped"]
       /\ timers = [s \in NodeNames |-> IF s \in up THEN 1 ELSE 0]
       /\ handle = [s \in NodeNames |-> s \in up]
  /\ errorCount = [s \in NodeNames |-> 0]
  /\ restartCount = [s \in NodeNames |-> 0]
  /\ lastError = [s \in NodeNames |-> "null"]
  /\ lastEvent = <<NoName, "none">>
  /\ thr = [t \in Threads |-> IdleThread]
  /\ returned = [op |-> "none", svc |-> NoName, res |-> "none"]
  /\ health = <<>>
  /\ failedEvents = <<>>
  /\ CoordIdle /\ OrchNew

\* serviceManager.registerService(service)
RegRegister(s, deps) ==
  /\ registerService(s, deps)
  /\ UNCHANGED <<cmpVars, svcVars, coordVars, orchVars>>

\* serviceManager.unregisterService(name)
RegUnregister(s) ==
  /\ unregisterService(s)
  /\ UNCHANGED <<cmpVars, svcVars, coordVars, orchVars>>

RegNext ==
  \/ \E s \in NodeNames, deps \in {d \in DepLists : Len(d) <= MaxRegDeps} :
       RegRegister(s, deps)
  \/ \E s \in NodeNames : RegUnregister(s)

SpecReg == RegistryInit /\ [][RegNext]_vars

\* ------------------------------------------------------------------ SpecOrder
\* The two order computations applied to every registry of up to three
\* nodes.  The manager and the initializer share no state: a behaviour
\* populates one of the two registries and then recomputes its order.
NameLists ==
  {l \in UNION {[1..k -> NodeNames] : k \in 0..Cardinality(NodeNames)} :
     \A i, j \in DOMAIN l : i # j => l[i] # l[j]}

OrderInit ==
  /\ \E names \in NameLists, onManager \in BOOLEAN :
       \E graph \in [Range(names) -> DepLists] :
         /\ services = IF onManager THEN names ELSE <<>>
         /\ dependencyGraph = IF onManager THEN graph ELSE <<>>
         /\ components = IF onManager THEN <<>> ELSE names
         /\ componentDeps = IF onManager THEN <<>> ELSE graph
  /\ startOrder = <<>>
  /\ stopOrder = <<>>
  /\ initializationOrder = <<>>
  /\ outcome = Ok("new")
  /\ isRequired = <<>>
  /\ config = DEFAULT_SERVICE_CONFIG
  /\ SvcInit({})
  /\ CoordIdle /\ OrchNew
  /\ initializedComponents = <<>> /\ initialized = FALSE
  /\ shutdownInProgress = FALSE
  /\ shutdownCalls = <<>>

\* the recomputation every registerService / unregisterService ends with
OrderCalculate ==
  /\ components = <<>>
  /\ outcome.op = "new"
  /\ storeOrder(calculateOrder(services, dependencyGraph), "calculateOrder")
  /\ UNCHANGED <<services, dependencyGraph>>
  /\ UNCHANGED cmpVars
  /\ UNCHANGED svcVars
  /\ UNCHANGED coordVars
  /\ UNCHANGED orchVars

OrderCompute ==
  /\ services = <<>>
  /\ outcome.op = "new"
  /\ computeInitializationOrder
  /\ UNCHANGED regVars
  /\ UNCHANGED svcVars
  /\ UNCHANGED coordVars
  /\ UNCHANGED orchVars

OrderNext == OrderCalculate \/ OrderCompute

SpecOrder == OrderInit /\ [][OrderNext]_vars

\* ------------------------------------------------------------------ graph facts
\* the registered-dependency relation: a depends on b, both registered
DependsOn(names, graph) ==
  {e \in Range(names) \X Range(names) : e[2] \in Range(graph[e[1]])}

RECURSIVE Reach(_, _, _)
\* the nodes reachable from frontier in one or more steps of E
Reach(E, frontier, seen) ==
  LET next == {e[2] : e \in {x \in E : x[1] \in frontier}} \ seen
  IN IF next = {} THEN seen ELSE Reach(E, next, seen \cup next)

OnCycle(E, n) == n \in Reach(E, {n}, {})

HasCycle(names, graph) ==
  \E n \in Range(names) : OnCycle(DependsOn(names, graph), n)

OrderSound(names, graph, order) ==
  /\ Len(order) = Len(names)
  /\ Range(order) = Range(names)
  /\ \A e \in DependsOn(names, graph) :
       IndexOf(order, e[2]) < IndexOf(order, e[1])

\* ------------------------------------------------------------------ SpecCoord
\* The coordination engine behind CoordinationService.  The service only
\* delegates; CoordinationManager itself is described by section 4.6 of
\* the specification: one holder and one FIFO wait queue per resource, a
\* wait-for graph checked before a wait is enqueued, a timeout per wait.

\* the wait-for graph: a -> b when a waits on a resource that b holds
WaitFor(h, q) ==
  {e \in Agents \X Agents :
     \E r \in Resources : e[1] \in Range(q[r]) /\ e[2] = h[r]}

\* would the edge agentId -> (holder of resourceId) close a cycle
wouldDeadlock(resourceId, agentId) ==
  \/ holder[resourceId] = agentId
  \/ agentId \in Reach(WaitFor(holder, waitQueue), {holder[resourceId]}, {})

Outcome(op, agentId, resourceId, res) ==
  lastCall' = [op |-> op, agent |-> agentId, resource |-> resourceId, res |-> res]

\* a faulty acquire that enqueues without consulting the wait-for graph
managerAcquireNoDetection(resourceId, agentId) ==
  IF holder[resourceId] = NoAgent
    THEN /\ holder' = [holder EXCEPT ![resourceId] = agentId]
         /\ granted' = granted \cup {<<agentId, resourceId>>}
         /\ Outcome("acquire", agentId, resourceId, "granted")
         /\ UNCHANGED waitQueue
    ELSE /\ waitQueue' = [waitQueue EXCEPT ![resourceId] = Append(@, agentId)]
         /\ Outcome("acquire", agentId, resourceId, "waiting")
         /\ UNCHANGED <<holder, granted>>

\* CoordinationManager.acquireResource, up to the grant or the suspension
managerAcquireResource(resourceId, agentId) ==
  IF holder[resourceId] = NoAgent
    THEN /\ holder' = [holder EXCEPT ![resourceId] = agentId]
         /\ granted' = granted \cup {<<agentId, resourceId>>}
         /\ Outcome("acquire", agentId, resourceId, "granted")
         /\ UNCHANGED waitQueue
  ELSE IF coordinationConfig.deadlockDetection /\ wouldDeadlock(resourceId, agentId)
    THEN /\ Outcome("acquire", agentId, resourceId, "deadlock")
         /\ UNCHANGED <<holder, waitQueue, granted>>
  ELSE /\ waitQueue' = [waitQueue EXCEPT ![resourceId] = Append(@, agentId)]
       /\ Outcome("acquire", agentId, resourceId, "waiting")
       /\ UNCHANGED <<holder, granted>>

\* a faulty release that lets any agent release
managerReleaseAnyCaller(resourceId, agentId) ==
  LET q == waitQueue[resourceId]
      next == IF q = <<>> THEN NoAgent ELSE Head(q)
  IN /\ holder' = [holder EXCEPT ![resourceId] = next]
     /\ waitQueue' = [waitQueue EXCEPT ![resourceId] = IF q = <<>> THEN <<>> ELSE Tail(q)]
     /\ granted' = (granted \ {<<agentId, resourceId>>})
                     \cup (IF next = NoAgent THEN {} ELSE {<<next, resourceId>>})
     /\ Outcome("release", agentId, resourceId, "released")

\* a faulty release that grants the waiter that came last
managerReleaseToLast(resourceId, agentId) ==
  IF holder[resourceId] # agentId
    THEN /\ Outcome("release", agentId, resourceId, "not-holder")
         /\ UNCHANGED <<holder, waitQueue, granted>>
    ELSE LET q == waitQueue[resourceId]
             next == IF q = <<>> THEN NoAgent ELSE q[Len(q)]
         IN /\ holder' = [holder EXCEPT ![resourceId] = next]
            /\ waitQueue' = [waitQueue EXCEPT
                               ![resourceId] = IF q = <<>> THEN <<>>
                                               ELSE SubSeq(q, 1, Len(q) - 1)]
            /\ granted' = (granted \ {<<agentId, resourceId>>})
                            \cup (IF next = NoAgent THEN {} ELSE {<<next, resourceId>>})
            /\ Outcome("release", agentId, resourceId, "released")

\* a faulty release that, refused to a waiter, also cancels its wait
managerReleaseCancelsWait(resourceId, agentId) ==
  IF holder[resourceId] # agentId
    THEN /\ Outcome("release", agentId, resourceId, "not-holder")
         /\ waitQueue' = [waitQueue EXCEPT
              ![resourceId] = SelectSeq(@, LAMBDA a : a # agentId)]
         /\ UNCHANGED <<holder, granted>>
    ELSE LET q == waitQueue[resourceId]
             next == IF q = <<>> THEN NoAgent ELSE Head(q)
         IN /\ holder' = [holder EXCEPT ![resourceId] = next]
            /\ waitQueue' = [waitQueue EXCEPT
                               ![resourceId] = IF q = <<>> THEN <<>> ELSE Tail(q)]
            /\ granted' = (granted \ {<<agentId, resourceId>>})
                            \cup (IF next = NoAgent THEN {} ELSE {<<next, resourceId>>})
            /\ Outcome("release", agentId, resourceId, "released")

\* CoordinationManager.releaseResource: the head of the queue is granted
managerReleaseResource(resourceId, agentId) ==
  IF holder[resourceId] # agentId
    THEN /\ Outcome("release", agentId, resourceId, "not-holder")
         /\ UNCHANGED <<holder, waitQueue, granted>>
    ELSE LET q == waitQueue[resourceId]
             next == IF q = <<>> THEN NoAgent ELSE Head(q)
         IN /\ holder' = [holder EXCEPT ![resourceId] = next]
            /\ waitQueue' = [waitQueue EXCEPT
                               ![resourceId] = IF q = <<>> THEN <<>> ELSE Tail(q)]
            /\ granted' = (granted \ {<<agentId, resourceId>>})
                            \cup (IF next = NoAgent THEN {} ELSE {<<next, resourceId>>})
            /\ Outcome("release", agentId, resourceId, "released")

\* a faulty timeout that fails the call but leaves the waiter queued
waitTimeoutStaysQueued(resourceId, agentId) ==
  /\ Outcome("acquire", agentId, resourceId, "timeout")
  /\ UNCHANGED <<holder, waitQueue, granted>>

\* the resourceTimeout of a wait elapses: dequeued, the call fails
waitTimeout(resourceId, agentId) ==
  /\ waitQueue' = [waitQueue EXCEPT
       ![resourceId] = SelectSeq(@, LAMBDA a : a # agentId)]
  /\ Outcome("acquire", agentId, resourceId, "timeout")
  /\ UNCHANGED <<holder, granted>>

\* CoordinationService.acquireResource
acquireResource(resourceId, agentId) ==
  IF ~coordinationManager
    THEN /\ Outcome("acquire", agentId, resourceId, "not-initialized")
         /\ UNCHANGED <<holder, waitQueue, granted>>
    ELSE managerAcquireResource(resourceId, agentId)

\* CoordinationService.releaseResource
releaseResource(resourceId, agentId) ==
  IF ~coordinationManager
    THEN /\ Outcome("release", agentId, resourceId, "not-initialized")
         /\ UNCHANGED <<holder, waitQueue, granted>>
    ELSE managerReleaseResource(resourceId, agentId)

CoordFixed ==
  UNCHANGED <<regVars, cmpVars, outcome, svcVars, orchVars,
              coordinationManager, coordinationConfig>>

\* an agent asks for a resource it neither holds nor already waits for
AcquireCall(a, r) ==
  /\ holder[r] # a
  /\ a \notin Range(waitQueue[r])
  /\ acquireResource(r, a)
  /\ CoordFixed

\* an agent, holder or not, releases a resource
ReleaseCall(a, r) ==
  /\ releaseResource(r, a)
  /\ CoordFixed

\* a pending wait runs into the resource timeout
WaitTimesOut(a, r) ==
  /\ a \in Range(waitQueue[r])
  /\ waitTimeout(r, a)
  /\ CoordFixed

\* the service either was started (a manager exists) or was not; either
\* setting of deadlockDetection passes beforeStart
CoordInit ==
  /\ RegInit /\ CmpInit /\ outcome = Ok("new")
  /\ isRequired = <<>>
  /\ config = DEFAULT_SERVICE_CONFIG
  /\ SvcInit({})
  /\ OrchNew
  /\ coordinationManager \in BOOLEAN
  /\ coordinationConfig \in [deadlockDetection : BOOLEAN]
  /\ CoordNew

CoordNext ==
  \E a \in Agents, r \in Resources :
    \/ AcquireCall(a, r)
    \/ ReleaseCall(a, r)
    \/ WaitTimesOut(a, r)

SpecCoord == CoordInit /\ [][CoordNext]_vars

\* ------------------------------------------------------------------ SpecHealth
\* BackendServiceManager.getServiceHealth over services that are started
\* and stopped one by one, also while the health checks are pending.

\* a faulty healthCheck that asks doHealthCheck() whatever the state
healthCheckUnguarded(W, s) == TRUE

\* BaseBackendService.healthCheck: doHealthCheck() is invoked only when
\* the service is Running; otherwise the answer is false at once
healthCheckInvokes(W, s) == W.state[s] = "running"

\* getServiceHealth up to await Promise.all: healthCheck() is called on
\* every entry of the services map in turn; the frame lists the services
\* whose doHealthCheck() is pending
getServiceHealthEnter(W, t) ==
  LET pending == SelectSeq(W.services, LAMBDA n : healthCheckInvokes(W, n))
      W1 == [W EXCEPT !.health = [n \in Range(W.services) \ Range(pending) |-> FALSE]]
  IN IF pending = <<>> THEN Deliver(W1, t, "ok")
     ELSE Push(W1, t, LoopFrame("getServiceHealth", "all", pending))

\* doHealthCheck() of s settles: "true", "false" or "throw" (caught by
\* healthCheck, which answers false); Promise.all resolves with the last
getServiceHealthResume(W, t, s, r) ==
  LET f == Top(W, t)
      rest == SelectSeq(f.list, LAMBDA n : n # s)
      W1 == [W EXCEPT !.health = [n \in DOMAIN @ \cup {s} |->
                                   IF n = s THEN r = "true" ELSE @[n]]]
  IN IF rest = <<>> THEN Deliver(Pop(W1, t), t, "ok")
     ELSE SetTop(W1, t, [f EXCEPT !.list = rest])

HealthResults == {"true", "false", "throw"}

\* a caller invokes serviceManager.getServiceHealth(), one call at a time
CallGetServiceHealth(t) ==
  /\ Free(t)
  /\ \A u \in Threads : thr[u].op # "getServiceHealth"
  /\ Apply(getServiceHealthEnter(Spawn(t, "getServiceHealth", NoName), t))

\* a pending doHealthCheck() of the call settles
DoHealthCheckSettles(t, s, r) ==
  /\ AtAwait(t, "getServiceHealth", {"all"})
  /\ s \in Range(Top(World, t).list)
  /\ Apply(getServiceHealthResume(World, t, s, r))

\* the owner starts or stops a registered service directly
HealthStart(t, s) == s \in Range(services) /\ CallStart(t, s)
HealthStop(t, s) == s \in Range(services) /\ CallStop(t, s)

HealthServices == {"A", "B"}

\* two services without periodic health checks (healthCheckInterval = 0)
HealthInit ==
  /\ RegInit /\ CmpInit /\ outcome = Ok("new")
  /\ isRequired = [s \in HealthServices |-> TRUE]
  /\ config = [DEFAULT_SERVICE_CONFIG EXCEPT !.healthCheckInterval = 0]
  /\ SvcInit(HealthServices)
  /\ CoordIdle /\ OrchNew

\* serviceManager.registerService(service), while no call is in flight
HealthRegister(s) ==
  /\ Quiet
  /\ s \notin Range(services)
  /\ registerService(s, <<>>)
  /\ UNCHANGED <<cmpVars, svcVars, coordVars, orchVars>>

HealthNext ==
  \/ \E s \in HealthServices : HealthRegister(s)
  \/ \E t \in Threads :
       \/ \E s \in HealthServices : HealthStart(t, s) /\ Fixed
       \/ \E s \in HealthServices : HealthStop(t, s) /\ Fixed
       \/ StartStageDone(t) /\ Fixed
       \/ StartStageFails(t) /\ Fixed
       \/ StopStageDone(t) /\ Fixed
       \/ CallGetServiceHealth(t) /\ Fixed
       \/ \E s \in HealthServices, r \in HealthResults :
            DoHealthCheckSettles(t, s, r) /\ Fixed

SpecHealth == HealthInit /\ [][HealthNext]_vars

\* ------------------------------------------------------------------ SpecCoordStart
\* CoordinationService under the service manager: its beforeStart hook
\* validates the CoordinationConfig it was constructed with, doStart
\* creates the coordination manager, doStop drops it.
CoordinationServiceName == "coordinationManager"
CoordStartServices == {"A", CoordinationServiceName}

\* super(...) in the constructor: ['logger', 'eventBus'], required
CoordStartDependencies ==
  [s \in CoordStartServices |->
     IF s = CoordinationServiceName THEN <<"logger", "eventBus">> ELSE <<>>]

\* the numbers tried for each numeric option: -MaxConfigValue..MaxConfigValue
MaxConfigValue == 1
ConfigNumbers == (0 - MaxConfigValue)..MaxConfigValue

\* a JavaScript value in the place of deadlockDetection: its typeof and
\* its truthiness (true, false, undefined, a non-empty string)
DeadlockDetectionValues ==
  {[typeof |-> "boolean", truthy |-> TRUE], [typeof |-> "boolean", truthy |-> FALSE],
   [typeof |-> "undefined", truthy |-> FALSE], [typeof |-> "string", truthy |-> TRUE]}

CoordinationConfigs ==
  [maxRetries : ConfigNumbers, retryDelay : ConfigNumbers,
   resourceTimeout : ConfigNumbers, messageTimeout : ConfigNumbers,
   deadlockDetection : DeadlockDetectionValues]

\* a faulty validation that lets retryDelay = 0 pass
beforeStartAllowsZeroDelay(cfg) ==
  IF cfg.maxRetries < 0 THEN "Max retries cannot be negative"
  ELSE IF cfg.retryDelay < 0 THEN "Retry delay must be greater than 0"
  ELSE IF cfg.resourceTimeout <= 0 THEN "Resource timeout must be greater than 0"
  ELSE IF cfg.messageTimeout <= 0 THEN "Message timeout must be greater than 0"
  ELSE IF cfg.deadlockDetection.typeof # "boolean"
    THEN "Deadlock detection must be a boolean value"
  ELSE "ok"

\* CoordinationService.beforeStart: "ok" or the message of the Error thrown
beforeStart(cfg) ==
  IF cfg.maxRetries < 0 THEN "Max retries cannot be negative"
  ELSE IF cfg.retryDelay <= 0 THEN "Retry delay must be greater than 0"
  ELSE IF cfg.resourceTimeout <= 0 THEN "Resource timeout must be greater than 0"
  ELSE IF cfg.messageTimeout <= 0 THEN "Message timeout must be greater than 0"
  ELSE IF cfg.deadlockDetection.typeof # "boolean"
    THEN "Deadlock detection must be a boolean value"
  ELSE "ok"

CoordStartInit ==
  /\ RegInit /\ CmpInit /\ outcome = Ok("new")
  /\ isRequired = [s \in CoordStartServices |-> TRUE]
  /\ config = [DEFAULT_SERVICE_CONFIG EXCEPT !.healthCheckInterval = 0]
  /\ SvcInit(CoordStartServices)
  /\ OrchNew
  /\ coordinationManager = FALSE
  /\ coordinationConfig \in CoordinationConfigs
  /\ CoordNew

CoordStartFixed ==
  UNCHANGED <<components, componentDeps, initializationOrder, outcome, isRequired,
              config, coordinationConfig, holder, waitQueue, granted, lastCall>>

\* the await that belongs to the coordination service itself
AtCoordinationAwait(t, fn, at) ==
  /\ AtAwait(t, fn, {at})
  /\ TopSvc(t) = CoordinationServiceName

\* serviceManager.registerService(service), while no call is in flight
CoordStartRegister(s) ==
  /\ Quiet
  /\ s \notin Range(services)
  /\ registerService(s, CoordStartDependencies[s])
  /\ UNCHANGED <<cmpVars, svcVars, coordVars, orchVars>>

\* coordinationService.start() called directly (the failures explored in
\* one behaviour are bounded)
CallCoordinationStart(t) ==
  /\ MayFail(t)
  /\ CoordinationServiceName \in Range(services)
  /\ CallStart(t, CoordinationServiceName)

\* serviceManager.startAll()
CoordStartAll(t) == MayFail(t) /\ CallStartAll(t)

\* await this.beforeStart() of the coordination service settles; when it
\* passes, doStart runs up to await coordinationManager.initialize()
CoordinationBeforeStartSettles(t) ==
  /\ AtCoordinationAwait(t, "start", "beforeStart")
  /\ Apply(startResume(World, t, beforeStart(coordinationConfig)))
  /\ coordinationManager' = (coordinationManager \/ beforeStart(coordinationConfig) = "ok")
  /\ CoordStartFixed

\* doStop of the coordination service: shutdown() resolved, manager dropped
CoordinationDoStopDone(t) ==
  /\ AtCoordinationAwait(t, "stop", "doStop")
  /\ coordinationManager
  /\ Apply(stopResume(World, t, "ok"))
  /\ coordinationManager' = FALSE
  /\ CoordStartFixed

CoordStartNext ==
  \/ \E s \in CoordStartServices : CoordStartRegister(s)
  \/ \E t \in Threads :
       \/ CoordStartAll(t) /\ Fixed
       \/ CallCoordinationStart(t) /\ Fixed
       \/ CoordinationBeforeStartSettles(t)
       \/ CoordinationDoStopDone(t)
       \/ StartStageDone(t) /\ ~AtCoordinationAwait(t, "start", "beforeStart") /\ Fixed
       \/ StartStageFails(t) /\ ~AtCoordinationAwait(t, "start", "beforeStart") /\ Fixed
       \/ StartTimesOut(t) /\ Fixed
       \/ StopStageDone(t) /\ ~AtCoordinationAwait(t, "stop", "doStop") /\ Fixed

SpecCoordStart == CoordStartInit /\ [][CoordStartNext]_vars

\* ------------------------------------------------------------------ SpecRestart
\* BackendInitializer.restartComponent, called at any time, also while an
\* initialize() is in flight.

\* BackendInitializer.restartComponent, from the call to the first await
restartComponentEnter(W, t, name) ==
  IF name \notin Range(W.components) THEN Deliver(W, t, "SystemError")
  ELSE IF name \in Range(W.initializedComponents)
    THEN Push(W, t, Frame("restartComponent", "shutdown", name))
  ELSE Push(W, t, Frame("restartComponent", "initialize", name))

\* a faulty restart that, when re-initialization fails, forgets every
\* initialized component
restartComponentResumeClearsAll(W, t, ok) ==
  LET f == Top(W, t)
  IN IF ~ok THEN Deliver(Pop([W EXCEPT !.initializedComponents = <<>>], t),
                         t, "SystemError")
     ELSE IF f.at = "shutdown"
       THEN SetTop([W EXCEPT !.initializedComponents =
                               SelectSeq(@, LAMBDA c : c # f.svc)],
                   t, [f EXCEPT !.at = "initialize"])
     ELSE Deliver(Pop(emit([W EXCEPT !.initializedComponents =
                                       IF f.svc \in Range(@) THEN @
                                       ELSE Append(@, f.svc)],
                           f.svc, "backend:component_restarted"), t), t, "ok")

\* restartComponent resumed: shutdownComponent or initializeComponent of
\* the named component has settled (ok) or failed (the catch re-throws)
restartComponentResume(W, t, ok) ==
  LET f == Top(W, t)
  IN IF ~ok THEN Deliver(Pop(W, t), t, "SystemError")
     ELSE IF f.at = "shutdown"
       THEN SetTop([W EXCEPT !.initializedComponents =
                               SelectSeq(@, LAMBDA c : c # f.svc)],
                   t, [f EXCEPT !.at = "initialize"])
     ELSE Deliver(Pop(emit([W EXCEPT !.initializedComponents =
                                       IF f.svc \in Range(@) THEN @
                                       ELSE Append(@, f.svc)],
                           f.svc, "backend:component_restarted"), t), t, "ok")

\* a caller invokes initializer.restartComponent(name), one restart at a
\* time, possibly while initialize() is in flight
CallRestartComponent(t, name) ==
  /\ Free(t)
  /\ \A u \in Threads : thr[u].op # "restartComponent"
  /\ Apply(restartComponentEnter(Spawn(t, "restartComponent", name), t, name))

\* component.shutdown() or the retried component.initialize() resolves
RestartStageDone(t) ==
  /\ AtAwait(t, "restartComponent", {"shutdown", "initialize"})
  /\ Apply(restartComponentResume(World, t, TRUE))

\* it rejects (or the shutdown runs into its timeout)
RestartStageFails(t) ==
  /\ AtAwait(t, "restartComponent", {"shutdown", "initialize"})
  /\ Apply(restartComponentResume(World, t, FALSE))

\* every component required
RestartInit ==
  /\ RegInit /\ CmpInit /\ outcome = Ok("new")
  /\ isRequired = [c \in InitComponents |-> TRUE]
  /\ config = DEFAULT_SERVICE_CONFIG
  /\ SvcInit({})
  /\ CoordIdle /\ OrchNew

RestartNext ==
  \/ \E c \in InitComponents : InitRegister(c)
  \/ \E t \in Threads :
       \/ CallInitializerInitialize(t) /\ InitFixed
       \/ ComponentInitDone(t) /\ InitFixed
       \/ ComponentInitFails(t) /\ InitFixed
       \/ ComponentHealthDone(t) /\ InitFixed
       \/ EventBusTestDone(t) /\ InitFixed
       \/ CleanupDone(t) /\ InitFixed
       \/ \E c \in InitComponents : CallRestartComponent(t, c) /\ InitFixed
       \/ RestartStageDone(t) /\ InitFixed
       \/ RestartStageFails(t) /\ InitFixed

SpecRestart == RestartInit /\ [][RestartNext]_vars

\* ------------------------------------------------------------------ SpecSkip
\* A manager or an initializer in which only some of the declared
\* dependencies are registered: services B (depends on A) and C (depends
\* on B) without A, component eventBus (depends on logger) without logger.
SkipInit ==
  /\ RegInit /\ CmpInit /\ outcome = Ok("new")
  /\ \E req \in [MgrServices -> BOOLEAN] :
       isRequired = [n \in MgrServices \cup InitComponents |->
                       IF n \in MgrServices THEN req[n] ELSE TRUE]
  /\ config = DEFAULT_SERVICE_CONFIG
  /\ SvcInit(MgrServices)
  /\ CoordIdle /\ OrchNew

\* registerService on a service manager (nothing is registered with an
\* initializer in that run)
SkipRegisterService(s) == components = <<>> /\ MgrRegister(s)

\* registerComponent on an initializer
SkipRegisterComponent(c) == services = <<>> /\ returned.op = "none" /\ InitRegister(c)

SkipNext ==
  \/ \E s \in MgrServices : SkipRegisterService(s)
  \/ \E c \in InitComponents : SkipRegisterComponent(c)
  \/ \E t \in Threads :
       \/ CallStartAll(t) /\ Fixed
       \/ StartStageDone(t) /\ Fixed
       \/ StartStageFails(t) /\ Fixed
       \/ StopStageDone(t) /\ Fixed
       \/ components # <<>> /\ CallInitializerInitialize(t) /\ InitFixed
       \/ ComponentInitDone(t) /\ InitFixed
       \/ ComponentInitFails(t) /\ InitFixed
       \/ ComponentHealthDone(t) /\ InitFixed
       \/ EventBusTestDone(t) /\ InitFixed
       \/ CleanupDone(t) /\ InitFixed

SpecSkip == SkipInit /\ [][SkipNext]_vars

\* ------------------------------------------------------------------ SpecConfig
\* SpecLife under the settings that switch health checking or
\* auto-restart off: the interval 0 or the default, auto-restart on or
\* off, but for the default setting of both (which is SpecLife's).
ServiceConfigs ==
  {c \in [maxRestartAttempts : {LifeMaxRestartAttempts},
          healthCheckInterval : {0, DefaultHealthCheckInterval},
          enableAutoRestart : BOOLEAN] :
     c.healthCheckInterval = 0 \/ ~c.enableAutoRestart}

ConfigInit ==
  /\ RegInit /\ CmpInit /\ outcome = Ok("new")
  /\ isRequired = [s \in LifeServices |-> TRUE]
  /\ config \in ServiceConfigs
  /\ SvcInit(LifeServices)
  /\ CoordIdle /\ OrchNew

SpecConfig == ConfigInit /\ [][LifeNext]_vars

\* ------------------------------------------------------------------ SpecLate
\* The manager of SpecMgr whose registry is still filled while startAll()
\* is under way: registerService() is a synchronous call that any caller,
\* an event handler included, may make while startAll() is suspended at
\* an await.
LateRegister(s) ==
  /\ s \notin Range(services)
  /\ registerService(s, MgrDependencies[s])
  /\ UNCHANGED <<cmpVars, svcVars, coordVars, orchVars>>

LateNext ==
  \/ \E s \in MgrServices : LateRegister(s)
  \/ \E t \in Threads :
       \/ CallStartAll(t) /\ Fixed
       \/ StartStageDone(t) /\ Fixed
       \/ StartStageFails(t) /\ Fixed
       \/ StartTimesOut(t) /\ Fixed
       \/ StopStageDone(t) /\ Fixed
       \/ StopStageFails(t) /\ Fixed
       \/ StopTimesOut(t) /\ Fixed

SpecLate == MgrInit /\ [][LateNext]_vars

\* ------------------------------------------------------------------ SpecFailed
\* The service of SpecTicks, started once and then left to its health-check
\* timer, with an observer on the event bus that counts its service:failed
\* events.
FailedInit ==
  /\ RegInit /\ CmpInit /\ outcome = Ok("new")
  /\ isRequired = [s \in LifeServices |-> TRUE]
  /\ config = [DEFAULT_SERVICE_CONFIG EXCEPT
                 !.maxRestartAttempts = LifeMaxRestartAttempts]
  /\ state = [s \in LifeServices |-> "stopped"]
  /\ errorCount = [s \in LifeServices |-> 0]
  /\ restartCount = [s \in LifeServices |-> 0]
  /\ lastError = [s \in LifeServices |-> "null"]
  /\ timers = [s \in LifeServices |-> 0]
  /\ handle = [s \in LifeServices |-> FALSE]
  /\ lastEvent = <<NoName, "none">>
  /\ thr = [t \in Threads |-> IdleThread]
  /\ returned = [op |-> "none", svc |-> NoName, res |-> "none"]
  /\ health = <<>>
  /\ failedEvents = [s \in LifeServices |-> 0]
  /\ CoordIdle /\ OrchNew

SpecFailed == FailedInit /\ [][TicksNext]_vars

\* ------------------------------------------------------------------ SpecRaise
\* The initializer of SpecInit with components that declare any of a few
\* dependency lists, so that a registry may hold a cycle (a component
\* that needs itself, or logger and eventBus needing each other):
\* initialize() then raises for a cycle, for a required component's failure
\* or for a missing critical component, and is called again at will.
RaiseDependencyLists == {<<>>, <<"logger">>, <<"eventBus">>}

\* initializer.registerComponent(component)
RaiseRegister(c, deps) ==
  /\ Quiet
  /\ c \notin Range(components)
  /\ registerComponent(c, deps)
  /\ UNCHANGED <<regVars, svcVars, coordVars, orchVars>>

RaiseNext ==
  \/ \E c \in InitComponents, deps \in RaiseDependencyLists : RaiseRegister(c, deps)
  \/ \E t \in Threads :
       \/ CallInitializerInitialize(t) /\ InitFixed
       \/ ComponentInitDone(t) /\ InitFixed
       \/ ComponentInitFails(t) /\ InitFixed
       \/ ComponentHealthDone(t) /\ InitFixed
       \/ EventBusTestDone(t) /\ InitFixed
       \/ CleanupDone(t) /\ InitFixed

SpecRaise == InitInit /\ [][RaiseNext]_vars

\* ------------------------------------------------------------------ SpecShutdown
\* A BackendInitializer driven by one caller, one call after another:
\* registerComponent, initialize(), restartComponent() and shutdown() in any
\* sequence, every component initialization and shutdown succeeding or
\* failing.  Besides the three critical components there is a cache, which
\* needs the logger; every component is required.
ShutdownComponents == InitComponents \cup {"cache"}
ShutdownDependencies == [c \in ShutdownComponents |->
                           IF c \in {"eventBus", "cache"} THEN <<"logger">> ELSE <<>>]

ShutdownInit ==
  /\ RegInit /\ CmpInit /\ outcome = Ok("new")
  /\ isRequired = [c \in ShutdownComponents |-> TRUE]
  /\ config = DEFAULT_SERVICE_CONFIG
  /\ SvcInit({})
  /\ CoordIdle /\ OrchNew

\* the caller registers the components in this order
ShutdownRegistrations == <<"logger", "config", "eventBus", "cache">>

\* the components the caller restarts
ShutdownRestarts == {"logger", "cache"}

\* initializer.registerComponent(component), the next one of the list
ShutdownRegister(c) ==
  /\ Quiet
  /\ Len(components) < Len(ShutdownRegistrations)
  /\ c = ShutdownRegistrations[Len(components) + 1]
  /\ registerComponent(c, ShutdownDependencies[c])
  /\ UNCHANGED <<regVars, svcVars, coordVars, orchVars>>

\* a caller invokes initializer.shutdown()
CallShutdown(t) ==
  /\ Quiet /\ Free(t)
  /\ Apply(shutdownEnter(Spawn(t, "initializer.shutdown", NoName), t))

\* shutdownComponent(component) resolves
ShutdownStageDone(t) ==
  /\ AtAwait(t, "shutdown", {"component"})
  /\ Apply(shutdownComponentDone(World, t, TRUE))

\* it rejects or runs into the shutdown timeout
ShutdownStageFails(t) ==
  /\ AtAwait(t, "shutdown", {"component"})
  /\ Apply(shutdownComponentDone(World, t, FALSE))

ShutdownNext ==
  \/ \E c \in ShutdownComponents : ShutdownRegister(c)
  \/ \E t \in Threads :
       \/ CallInitializerInitialize(t) /\ InitFixed
       \/ ComponentInitDone(t) /\ InitFixed
       \/ ComponentInitFails(t) /\ InitFixed
       \/ ComponentHealthDone(t) /\ InitFixed
       \/ EventBusTestDone(t) /\ InitFixed
       \/ CleanupDone(t) /\ InitFixed
       \/ \E c \in ShutdownRestarts : Quiet /\ CallRestartComponent(t, c) /\ InitFixed
       \/ RestartStageDone(t) /\ InitFixed
       \/ RestartStageFails(t) /\ InitFixed
       \/ CallShutdown(t) /\ InitFixed
       \/ ShutdownStageDone(t) /\ InitFixed
       \/ ShutdownStageFails(t) /\ InitFixed

SpecShutdown == ShutdownInit /\ [][ShutdownNext]_vars

\* ------------------------------------------------------------------ SpecUnreg
\* The manager of SpecStop (A, and B which needs A, both required) with
\* unregisterService() called at will, also while startAll() or stopAll()
\* is suspended at an await.  Services are started by startAll() only.
UnregNext ==
  \/ \E s \in StopServices : MgrRegister(s)
  \/ \E s \in StopServices : RegUnregister(s)
  \/ \E t \in Threads :
       \/ CallStartAll(t) /\ Fixed
       \/ CallStopAll(t) /\ Fixed
       \/ StartStageDone(t) /\ Fixed
       \/ StartStageFails(t) /\ Fixed
       \/ StartTimesOut(t) /\ Fixed
       \/ StopStageDone(t) /\ Fixed
       \/ StopStageFails(t) /\ Fixed
       \/ StopTimesOut(t) /\ Fixed

SpecUnreg == StopInit /\ [][UnregNext]_vars

\* ------------------------------------------------------------------ claims
\* C1: for an acyclic dependency graph, calculateOrder and
\* calculateInitializationOrder return an order that holds every registered
\* node exactly once and every registered dependency strictly before its
\* dependent.
C1_DependenciesFirst ==
  /\ (outcome.op = "calculateOrder" /\ ~HasCycle(services, dependencyGraph))
       => (outcome.ok /\ OrderSound(services, dependencyGraph, startOrder))
  /\ (outcome.op = "calculateInitializationOrder"
        /\ ~HasCycle(components, componentDeps))
       => (outcome.ok /\ OrderSound(components, componentDeps, initializationOrder))

C1_Witness ==
  /\ outcome.op = "calculateOrder"
  /\ services = <<"C", "B", "A">>
  /\ dependencyGraph["C"] = <<"B", "A">>
  /\ dependencyGraph["B"] = <<"A">>
  /\ dependencyGraph["A"] = <<>>
  /\ startOrder = <<"A", "B", "C">>

\* C2: when the registered nodes contain a dependency cycle (a self
\* dependency included), the order computation raises an error naming a
\* node that lies on a cycle, and no order is stored or returned.
C2_CycleRejected ==
  /\ (outcome.op = "calculateOrder" /\ HasCycle(services, dependencyGraph))
       => /\ ~outcome.ok
          /\ OnCycle(DependsOn(services, dependencyGraph), outcome.culprit)
          /\ startOrder = <<>> /\ stopOrder = <<>>
  /\ (outcome.op = "calculateInitializationOrder"
        /\ HasCycle(components, componentDeps))
       => /\ ~outcome.ok
          /\ OnCycle(DependsOn(components, componentDeps), outcome.culprit)
          /\ initializationOrder = <<>>

C2_Witness ==
  /\ outcome.op = "calculateInitializationOrder"
  /\ components = <<"A", "B", "C">>
  /\ componentDeps["A"] = <<"B">>
  /\ componentDeps["B"] = <<"C">>
  /\ componentDeps["C"] = <<"A">>
  /\ ~outcome.ok
  /\ outcome.culprit = "A"

\* C3: when startAll() reaches a required service whose start() fails, it
\* starts no service that comes later in the start order, calls stop() on
\* every earlier service that is Running, in reverse start order (a stop()
\* that fails there does not end the rollback), and then raises; in
\* Scenario A with B failing, C is never started, A ends Stopped and
\* startAll() raises.
C3_RollbackOnRequiredFailure ==
  [][LET InRollback(t) ==
           /\ thr[t].op = "startAll" /\ thr[t].stack # <<>>
           /\ thr[t].stack[1].at \in {"rollback", "stop"}
         Raised ==
           /\ \A t \in Threads : thr[t].stack = <<>>
           /\ returned = [op |-> "startAll", svc |-> NoName, res |-> "ServiceError"]
         Between(x, y) ==
           {startOrder[j] :
              j \in (IndexOf(startOrder, x) + 1) .. (IndexOf(startOrder, y) - 1)}
         \* while the rollback runs: a required service failed, and stop()
         \* is pending on an earlier service only once every service
         \* between the two has left Running
         Rollback ==
           \A t \in Threads : InRollback(t) =>
             LET f == thr[t].stack[1] IN
             /\ isRequired[f.svc] /\ state[f.svc] = "error"
             /\ f.at = "stop" =>
                  /\ thr[t].stack[2].fn = "stop"
                  /\ IndexOf(startOrder, thr[t].stack[2].svc) < IndexOf(startOrder, f.svc)
                  /\ \A x \in Between(thr[t].stack[2].svc, f.svc) : state[x] # "running"
         \* once startAll() has raised: no earlier service is Running
         Done ==
           Raised =>
             \E k \in 1..Len(startOrder) :
               /\ isRequired[startOrder[k]] /\ state[startOrder[k]] = "error"
               /\ \A j \in 1..(k - 1) : state[startOrder[j]] \in {"stopped", "error"}
         ScenarioA ==
           (Raised /\ startOrder = <<"A", "B", "C">> /\ isRequired["B"]
              /\ errorCount = [s \in MgrServices |-> IF s = "B" THEN 1 ELSE 0])
             => /\ state = [s \in MgrServices |-> IF s = "B" THEN "error" ELSE "stopped"]
                /\ \A s \in MgrServices : timers[s] = 0
     IN /\ Rollback' /\ Done' /\ ScenarioA'
        /\ \A t \in Threads :
             /\ (thr[t].op = "startAll" /\ thr[t].stack # <<>>
                   /\ (InRollback(t)'
                         \/ (thr'[t] = IdleThread /\ returned'.res = "ServiceError")))
                  => \A s \in DOMAIN state : state'[s] = "starting" => state[s] = "starting"
             /\ (InRollback(t) /\ thr'[t].stack = <<>>)
                  => returned' = [op |-> "startAll", svc |-> NoName, res |-> "ServiceError"]
    ]_vars

C3_Witness ==
  /\ \A t \in Threads : thr[t].stack = <<>>
  /\ returned = [op |-> "startAll", svc |-> NoName, res |-> "ServiceError"]
  /\ startOrder = <<"A", "B", "C">>
  /\ isRequired = [s \in MgrServices |-> TRUE]
  /\ state = [s \in MgrServices |-> IF s = "B" THEN "error" ELSE "stopped"]
  /\ lastEvent = <<"A", "service:stopped">>

\* C4: every observed change of a service's state is an edge of the cycle
\* Stopped -> Starting -> Running -> Stopping -> Stopped or an edge into
\* Error from Starting, Stopping or Running; no state is skipped.
C4_OnlyLifecycleEdges ==
  [][LET Edges == {<<"stopped", "starting">>, <<"starting", "running">>,
                   <<"running", "stopping">>, <<"stopping", "stopped">>,
                   <<"starting", "error">>, <<"stopping", "error">>,
                   <<"running", "error">>}
     IN \A s \in DOMAIN state :
          state'[s] # state[s] => <<state[s], state'[s]>> \in Edges]_vars

\* C5: the restarts that failing health checks trigger on one service never
\* number more than maxRestartAttempts.
C5_RestartsBounded ==
  \A s \in DOMAIN restartCount : restartCount[s] <= config.maxRestartAttempts

\* C6: under any interleaving of acquireResource and releaseResource calls
\* (and wait timeouts) by any of the agents, each resource has at most one
\* holder: at most one agent has been granted it and has not released it,
\* and that agent is the recorded holder.
C6_AtMostOneHolder ==
  \A r \in Resources :
    LET holders == {a \in Agents : <<a, r>> \in granted}
    IN /\ Cardinality(holders) <= 1
       /\ holders = {holder[r]} \ {NoAgent}

C6_Witness ==
  /\ lastCall = [op |-> "release", agent |-> 1, resource |-> 1, res |-> "released"]
  /\ holder[1] = 2
  /\ waitQueue[1] = <<3>>
  /\ granted = {<<2, 1>>}

C8_FailureRecorded ==
  [][\A t \in Threads :
       /\ (StartStageFails(t) \/ StartTimesOut(t)) =>
            LET s == TopSvc(t) IN
            /\ state'[s] = "error"
            /\ errorCount' = [errorCount EXCEPT ![s] = @ + 1]
            /\ lastError'[s] = IF StartTimesOut(t) THEN "timeout" ELSE "fail"
            /\ lastEvent' = <<s, "service:error">>
            /\ Len(thr'[t].stack) < Len(thr[t].stack)
            /\ thr[t].op = "start" =>
                 /\ thr'[t] = IdleThread
                 /\ returned' = [op |-> "start", svc |-> s, res |-> "ServiceStartupError"]
       /\ (StopStageFails(t) \/ StopTimesOut(t)) =>
            LET s == TopSvc(t) IN
            /\ state'[s] = "error"
            /\ errorCount' = [errorCount EXCEPT ![s] = @ + 1]
            /\ lastError'[s] = IF StopTimesOut(t) THEN "timeout" ELSE "fail"
            /\ Len(thr'[t].stack) < Len(thr[t].stack)
            /\ thr[t].op = "stop" =>
                 /\ thr'[t] = IdleThread
                 /\ returned' = [op |-> "stop", svc |-> s, res |-> "ServiceShutdownError"]
    ]_vars

C8_Witness ==
  /\ state["S"] = "error"
  /\ errorCount["S"] = 1
  /\ lastError["S"] = "timeout"
  /\ lastEvent = <<"S", "service:error">>
  /\ returned = [op |-> "start", svc |-> "S", res |-> "ServiceStartupError"]

\* C9: start() on a Running service returns without any effect; start() on
\* a service that is Starting or Stopping fails with an error and leaves
\* state and metrics as they were, so overlapping start/stop calls are
\* rejected rather than interleaved.
C9_StartRejectedWhileBusy ==
  [][\A t \in Threads : \A s \in DOMAIN state :
       (CallStart(t, s) /\ state[s] \in {"running", "starting", "stopping"}) =>
         /\ UNCHANGED <<state, errorCount, restartCount, lastError, timers, lastEvent, thr>>
         /\ returned' = [op |-> "start", svc |-> s,
                         res |-> IF state[s] = "running" THEN "ok"
                                 ELSE "ServiceStartupError"]
    ]_vars

C12_AbortsOnlyOnFailure ==
  [][\A t \in Threads :
       (Running(t) /\ AtAwait(t, "initialize", {"component", "health", "eventBusTest"})
          /\ Running(t)' /\ AtAwait(t, "initialize", {"cleanup"})')
         => ComponentInitFails(t)
    ]_vars

\* C13: in every reachable state of the manager, whatever registerService
\* and unregisterService calls were made (those that raised included),
\* stopOrder is exactly the reverse of startOrder.
C13_StopOrderIsReverse ==
  /\ Len(stopOrder) = Len(startOrder)
  /\ \A i \in 1..Len(startOrder) : stopOrder[i] = startOrder[Len(startOrder) + 1 - i]

C13_Witness ==
  /\ outcome = Ok("unregisterService")
  /\ startOrder = <<"A", "C">>
  /\ stopOrder = <<"C", "A">>
  /\ state["A"] = "stopped"

\* C15: when the start() of a non-required service fails during
\* startAll(), startAll() does not raise and stops nothing: it goes on to
\* start() the later services of the start order (start() does nothing on
\* one that is Running already) and returns normally after the last one;
\* startAll() turns to its rollback, and raises, only in a step in which a
\* required service's start() has failed.
C15_OptionalFailureNotPropagated ==
  [][\A t \in Threads :
       LET InStartAll == thr[t].op = "startAll" /\ Running(t)
           f == thr[t].stack[1]
           Failing == StartStageFails(t) \/ StartTimesOut(t)
           \* the later services that are not Running yet
           later == {j \in (f.i + 1)..Len(f.list) : state[f.list[j]] # "running"}
           next == CHOOSE j \in later : \A k \in later : j <= k
       IN /\ (InStartAll /\ Failing /\ ~isRequired[f.svc]) =>
               /\ \A s \in DOMAIN state : state'[s] # "stopping"
               /\ later # {} =>
                    /\ Running(t)'
                    /\ thr'[t].stack[1] = [f EXCEPT !.i = next, !.svc = f.list[next]]
                    /\ Len(thr'[t].stack) = 2
                    /\ thr'[t].stack[2] = Frame("start", "beforeStart", f.list[next])
                    /\ state'[f.list[next]] = "starting"
               /\ later = {} =>
                    /\ thr'[t] = IdleThread
                    /\ returned' = [op |-> "startAll", svc |-> NoName, res |-> "ok"]
          /\ (InStartAll /\ f.at = "start"
                /\ \/ Running(t)' /\ thr'[t].stack[1].at \in {"rollback", "stop"}
                   \/ thr'[t] = IdleThread /\ returned'.res # "ok")
               => Failing /\ isRequired[f.svc]
    ]_vars

C15_Witness ==
  /\ Quiet
  /\ returned = [op |-> "startAll", svc |-> NoName, res |-> "ok"]
  /\ startOrder = <<"A", "B", "C">>
  /\ ~isRequired["B"]
  /\ state = [s \in MgrServices |-> IF s = "B" THEN "error" ELSE "running"]
  /\ lastEvent = <<"C", "service:started">>

\* C14: stopAll() walks the services in reverse start order, calls stop()
\* on each one that is Running, goes on when a stop() fails and never
\* raises; at the moment stopAll() returns no registered service is
\* Running, whatever the health-check timers did meanwhile.
C14_StopAllLeavesNoneRunning ==
  [][\A t \in Threads :
       (thr[t].op = "stopAll" /\ Running(t) /\ thr'[t] = IdleThread) =>
         /\ returned' = [op |-> "stopAll", svc |-> NoName, res |-> "ok"]
         /\ \A s \in Range(services') : state'[s] # "running"
    ]_vars

\* C16: with maxRestartAttempts = 3 and auto-restart enabled, a service
\* whose health checks keep failing is restarted exactly 3 times, and the
\* 3 restarts are followed by service:failed and state Error: a failing
\* check asks for a restart while fewer than 3 were made, the restart
\* count never passes 3, and service:failed is emitted with exactly 3
\* restarts made.
C16_ThreeRestartsThenFailed ==
  [][\A s \in LifeServices :
       /\ restartCount'[s] <= DefaultMaxRestartAttempts
       /\ (lastEvent' = <<s, "service:failed">> /\ lastEvent' # lastEvent) =>
            /\ restartCount'[s] = DefaultMaxRestartAttempts
            /\ state'[s] = "error"
       /\ \A t \in Threads :
            (HealthCheckDone(t, FALSE) /\ TopSvc(t) = s) =>
              IF restartCount[s] < DefaultMaxRestartAttempts
                THEN lastEvent' # <<s, "service:failed">>
                ELSE lastEvent' = <<s, "service:failed">> /\ state'[s] = "error"
    ]_vars

\* C17: restart() runs stop(), then the restart delay, then start().  When
\* both succeed, restartCount grows by exactly one, service:restarted is
\* emitted and the call returns; when stop() or start() fails, restart()
\* raises ServiceError, restartCount stays as it was, service:restarted is
\* not emitted and the service keeps the state the failed stop() or start()
\* left (Error after a failed stage).  restartCount changes in no other way.
C17_RestartCountsSuccessOnly ==
  [][\A s \in LifeServices :
       /\ restartCount'[s] # restartCount[s] =>
            /\ restartCount'[s] = restartCount[s] + 1
            /\ lastEvent' = <<s, "service:restarted">>
            /\ state'[s] = "running"
       /\ \A t \in Threads :
            /\ ((CallRestart(t, s) \/ (thr[t].op = "restart" /\ thr[t].svc = s
                                          /\ Running(t)))
                  /\ thr'[t] = IdleThread) =>
                 /\ returned'.op = "restart" /\ returned'.svc = s
                 /\ \/ /\ returned'.res = "ok"
                       /\ restartCount'[s] = restartCount[s] + 1
                    \/ /\ returned'.res = "ServiceError"
                       /\ restartCount' = restartCount
                       /\ lastEvent' \in {lastEvent, <<s, "service:error">>}
                       /\ state'[s] \in {state[s], "error"}
                       /\ (StartStageFails(t) \/ StartTimesOut(t) \/ StopStageFails(t)
                             \/ StopTimesOut(t)) => state'[s] = "error"
            \* the order of the three awaits
            /\ (thr[t].op = "restart" /\ Running(t) /\ Running(t)') =>
                 LET f == thr[t].stack[1]
                     g == thr'[t].stack[1]
                 IN /\ f.at = "stop" => g.at \in {"stop", "delay"}
                    /\ f.at = "delay" => g.at \in {"delay", "start"}
                    /\ f.at = "start" => g.at = "start"
                    /\ Len(thr[t].stack) = 2 =>
                         thr[t].stack[2].fn = (IF f.at = "stop" THEN "stop" ELSE "start")
    ]_vars

C17_Witness ==
  /\ Quiet
  /\ returned = [op |-> "restart", svc |-> "S", res |-> "ServiceError"]
  /\ state["S"] = "error"
  /\ lastError["S"] = "timeout"
  /\ lastEvent = <<"S", "service:error">>
  /\ restartCount["S"] = 1
  /\ errorCount["S"] = 1

\* C18: when a required component fails for good during initialize(), the
\* initialization is abandoned (no later component is initialized and
\* initialize() raises) and shutdown() is called on the components
\* initialized so far, in the reverse of the order in which they were
\* initialized.
C18_AbortShutsDownInReverse ==
  [][\A t \in Threads :
       /\ (ComponentInitFails(t) /\ isRequired[TopSvc(t)]) =>
            /\ AtAwait(t, "initialize", {"cleanup"})'
            /\ initializedComponents' = initializedComponents
            /\ shutdownCalls' = Reverse(initializedComponents)
       /\ CleanupDone(t) =>
            /\ initializedComponents' = <<>>
            /\ thr[t].op = "initializer.initialize" =>
                 /\ thr'[t] = IdleThread
                 /\ returned'.res = "InitializationError"
    ]_vars

\* C19: BackendInitializer.initialize() returns success only if logger,
\* config and eventBus are all registered and initialized; when one of
\* them is not registered or not initialized, initialize() takes its
\* failure path and raises, even though no component reported a failure.
C19_CriticalComponentsNeeded ==
  [][\A t \in Threads :
       /\ (Running(t) /\ thr[t].op = "initializer.initialize"
             /\ thr'[t] = IdleThread /\ returned'.res = "ok") =>
            /\ criticalComponents \subseteq Range(components)
            /\ criticalComponents \subseteq Range(initializedComponents')
            /\ initialized'
       /\ (ComponentHealthDone(t)
             /\ ~(criticalComponents \subseteq
                    Range(components) \cap Range(initializedComponents))) =>
            AtAwait(t, "initialize", {"cleanup"})'
       /\ (CleanupDone(t) /\ thr[t].op = "initializer.initialize") =>
            /\ thr'[t] = IdleThread
            /\ returned'.res = "InitializationError"
            /\ ~initialized'
    ]_vars

C19_Witness ==
  /\ AtAwait(1, "initialize", {"cleanup"})
  /\ thr[1].op = "initializer.initialize"
  /\ components = <<"logger", "eventBus">>
  /\ initializedComponents = <<"logger", "eventBus">>
  /\ shutdownCalls = <<"logger", "eventBus">>

\* C20: the waiters on a resource are granted it strictly in the order in
\* which they were enqueued: a new waiter goes to the tail of the queue,
\* the queue never reorders, and when the holder releases, ownership
\* passes to the head of the queue, whose acquireResource resolves before
\* that of any later waiter.
C20_WaitersServedInOrder ==
  [][\A r \in Resources :
       LET q == waitQueue[r]
           q1 == waitQueue'[r]
       IN \* the waiters that stay keep their order; a newcomer is last
          /\ \A i, j \in DOMAIN q1 :
               (i < j /\ q1[j] \in Range(q)) =>
                 /\ q1[i] \in Range(q)
                 /\ IndexOf(q, q1[i]) < IndexOf(q, q1[j])
          \* while agents wait, only the head of the queue becomes holder
          /\ (q # <<>> /\ holder'[r] # holder[r]) =>
               /\ holder'[r] = Head(q)
               /\ q1 = Tail(q)
               /\ <<Head(q), r>> \in granted'
          \* a waiter is granted only by becoming the holder
          /\ \A a \in Range(q) :
               <<a, r>> \in granted' => (a = Head(q) /\ holder'[r] = a)
          \* a release by the holder hands over at once
          /\ \A a \in Agents :
               (ReleaseCall(a, r) /\ coordinationManager /\ holder[r] = a /\ q # <<>>)
                 => holder'[r] = Head(q)
    ]_vars

C20_Witness ==
  /\ lastCall = [op |-> "release", agent |-> 1, resource |-> 1, res |-> "released"]
  /\ holder = <<2, 3>>
  /\ waitQueue = <<(<<3>>), <<>>>>
  /\ granted = {<<2, 1>>, <<3, 2>>}

\* C21: releaseResource(resourceId, agentId) by an agent that is not the
\* current holder of the resource fails (with the non-holder error, or
\* with "not initialized" when the service has no manager) and leaves the
\* holder, the wait queue and the grants of every resource unchanged;
\* ownership is never transferred by such a call.
C21_NonHolderReleaseRefused ==
  [][\A a \in Agents, r \in Resources :
       (ReleaseCall(a, r) /\ holder[r] # a) =>
         /\ lastCall'.op = "release"
         /\ lastCall'.res = IF coordinationManager THEN "not-holder"
                                                  ELSE "not-initialized"
         /\ UNCHANGED <<holder, waitQueue, granted>>
    ]_vars

\* agent 2, waiting for resource 1 behind nobody, tried to release it
\* while agent 1 holds it and agent 3 waits too
C21_Witness ==
  /\ lastCall = [op |-> "release", agent |-> 2, resource |-> 1, res |-> "not-holder"]
  /\ holder[1] = 1
  /\ waitQueue[1] = <<2, 3>>
  /\ <<1, 1>> \in granted

\* C22: a waiter whose resourceTimeout elapses before it is granted is
\* removed from the wait queue of the resource (the other waiters keep
\* their places) and its acquireResource fails with a timeout error,
\* without a grant.  From then on it is no waiter: an agent outside the
\* queue becomes holder only through a new acquireResource of its own,
\* and a release by the holder passes ownership to the head of the
\* waiters that remain.
C22_TimedOutWaiterLeavesQueue ==
  [][\A a \in Agents, r \in Resources :
       LET q == waitQueue[r]
       IN /\ (WaitTimesOut(a, r)) =>
               /\ waitQueue'[r] = SelectSeq(q, LAMBDA b : b # a)
               /\ a \notin Range(waitQueue'[r])
               /\ lastCall' = [op |-> "acquire", agent |-> a,
                               resource |-> r, res |-> "timeout"]
               /\ holder' = holder /\ holder[r] # a
               /\ granted' = granted
               /\ \A o \in Resources \ {r} : waitQueue'[o] = waitQueue[o]
          /\ (a \notin Range(q) /\ holder[r] # a /\ holder'[r] = a) =>
               /\ AcquireCall(a, r)
               /\ lastCall'.res = "granted"
          /\ (a \notin Range(q) /\ <<a, r>> \notin granted /\ <<a, r>> \in granted') =>
               AcquireCall(a, r)
          /\ (ReleaseCall(a, r) /\ coordinationManager /\ holder[r] = a) =>
               /\ holder'[r] = IF q = <<>> THEN NoAgent ELSE Head(q)
               /\ waitQueue'[r] = IF q = <<>> THEN <<>> ELSE Tail(q)
    ]_vars

\* agent 2, first in the queue of resource 1 held by agent 1, timed out;
\* agent 3 behind it is now the next waiter
C22_Witness ==
  /\ lastCall = [op |-> "acquire", agent |-> 2, resource |-> 1, res |-> "timeout"]
  /\ holder[1] = 1
  /\ waitQueue[1] = <<3>>
  /\ <<2, 1>> \notin granted

\* C23: every call to start() or stop() eventually completes, returning
\* or raising, even when the implementation or a lifecycle hook never
\* completes, because the startup / shutdown timeout ends the wait.  In
\* finite form: whenever a call is suspended inside start() or stop(),
\* waiting for beforeStart, doStart, afterStart, beforeStop, doStop or
\* afterStop, the expiry of the timeout is a step that can be taken and
\* that fails the call.
C23_EveryWaitHasTimeout ==
  \A t \in Threads :
    /\ (AtAwait(t, "start", {"beforeStart", "doStart", "afterStart"}) /\ MayFail(t))
          => ENABLED (StartTimesOut(t) /\ Fixed)
    /\ (AtAwait(t, "stop", {"beforeStop", "doStop", "afterStop"}) /\ MayFail(t))
          => ENABLED (StopTimesOut(t) /\ Fixed)

\* C24: getServiceHealth() never raises and returns a record with exactly
\* one boolean entry per registered service; the entry is false for a
\* service whose health check throws, and false for every service that
\* is not Running when the call is made, whose doHealthCheck() is then
\* not invoked.
C24_HealthMapTotalAndSafe ==
  [][\A t \in Threads :
       LET calling == thr'[t].op = "getServiceHealth"
           pending1 == IF thr'[t].stack = <<>> THEN {}
                       ELSE Range(thr'[t].stack[1].list)
       IN \* the call: not Running means false, and no doHealthCheck()
          /\ CallGetServiceHealth(t) =>
               \A s \in Range(services) :
                 IF state[s] = "running"
                   THEN s \in pending1
                   ELSE /\ s \notin pending1
                        /\ s \in DOMAIN health' /\ health'[s] = FALSE
          \* a health check that throws gives false
          /\ \A s \in HealthServices :
               DoHealthCheckSettles(t, s, "throw") =>
                 (s \in DOMAIN health' /\ health'[s] = FALSE)
          \* an entry, once written, stays
          /\ (thr[t].op = "getServiceHealth" /\ calling) =>
               \A s \in DOMAIN health : s \in DOMAIN health' /\ health'[s] = health[s]
          \* the return: no raise, one boolean per registered service
          /\ ((thr[t].op = "getServiceHealth" \/ CallGetServiceHealth(t)) /\ ~calling) =>
               /\ returned' = [op |-> "getServiceHealth", svc |-> NoName, res |-> "ok"]
               /\ DOMAIN health' = Range(services)
               /\ \A s \in DOMAIN health' : health'[s] \in BOOLEAN
               /\ \A s \in DOMAIN health : health'[s] = health[s] \/ CallGetServiceHealth(t)
    ]_vars

\* A was Running and answered true; B, in Error after a failed start, is
\* reported false
C24_Witness ==
  /\ returned = [op |-> "getServiceHealth", svc |-> NoName, res |-> "ok"]
  /\ services = <<"A", "B">>
  /\ health = [s \in {"A", "B"} |-> s = "A"]
  /\ state = [s \in {"A", "B"} |-> IF s = "A" THEN "running" ELSE "error"]
  /\ \A t \in Threads : ~Running(t)

\* C25: if the coordination configuration has maxRetries < 0,
\* retryDelay <= 0, resourceTimeout <= 0, messageTimeout <= 0 or a
\* deadlockDetection that is not a boolean, starting the coordination
\* service is a fatal startup error: the coordination manager is never
\* created, the service never runs and ends in Error with
\* ServiceStartupError raised by its start(), and, the service being
\* required, startAll() starts nothing further: it rolls back and raises.
C25_InvalidConfigIsFatal ==
  [][LET cfg == coordinationConfig
         c == CoordinationServiceName
         invalid == \/ cfg.maxRetries < 0
                    \/ cfg.retryDelay <= 0
                    \/ cfg.resourceTimeout <= 0
                    \/ cfg.messageTimeout <= 0
                    \/ cfg.deadlockDetection.typeof # "boolean"
     IN invalid =>
          /\ ~coordinationManager'
          /\ state'[c] # "running"
          /\ \A t \in Threads :
               CoordinationBeforeStartSettles(t) =>
                 /\ state'[c] = "error"
                 /\ errorCount'[c] = errorCount[c] + 1
                 /\ lastEvent' = <<c, "service:error">>
                 /\ thr[t].op = "start" =>
                      returned' = [op |-> "start", svc |-> c,
                                   res |-> "ServiceStartupError"]
                 /\ thr[t].op = "startAll" =>
                      /\ \A s \in CoordStartServices \ {c} :
                           state'[s] \in {state[s], "stopping"}
                      /\ IF Running(t)'
                           THEN thr'[t].stack[Len(thr'[t].stack)].fn = "stop"
                           ELSE returned' = [op |-> "startAll", svc |-> NoName,
                                             res |-> "ServiceError"]
    ]_vars

\* retryDelay = 0 with everything else valid: startAll() started A, the
\* coordination service then failed in beforeStart, A was stopped again
\* and startAll() raised
C25_Witness ==
  /\ coordinationConfig =
       [maxRetries |-> 0, retryDelay |-> 0, resourceTimeout |-> 1, messageTimeout |-> 1,
        deadlockDetection |-> [typeof |-> "boolean", truthy |-> TRUE]]
  /\ startOrder = <<"A", CoordinationServiceName>>
  /\ returned = [op |-> "startAll", svc |-> NoName, res |-> "ServiceError"]
  /\ state = [s \in CoordStartServices |->
                IF s = CoordinationServiceName THEN "error" ELSE "stopped"]
  /\ ~coordinationManager

\* C26: restartComponent(name) shuts down (only if it is initialized)
\* and re-initializes exactly the named component: every shutdown() or
\* initialize() it has pending is on that component, the initialized
\* status of every other component is left as it is at each of its
\* steps, whether the restart succeeds or fails, and for an unregistered
\* name it fails without changing anything.
C26_RestartTouchesOnlyNamed ==
  [][\A t \in Threads :
       LET was == Range(initializedComponents)
           is == Range(initializedComponents')
           others(name) ==
             /\ \A d \in InitComponents \ {name} : (d \in is) <=> (d \in was)
             /\ \A u \in Threads \ {t} : thr'[u] = thr[u]
             /\ UNCHANGED <<components, componentDeps, initializationOrder,
                            initialized, shutdownCalls>>
       IN /\ \A c \in InitComponents :
               CallRestartComponent(t, c) =>
                 IF c \notin Range(components)
                   THEN /\ returned' = [op |-> "restartComponent", svc |-> c,
                                        res |-> "SystemError"]
                        /\ thr' = thr
                        /\ UNCHANGED <<cmpVars, orchVars, lastEvent>>
                   ELSE /\ others(c) /\ is = was
                        /\ thr'[t].stack =
                             <<Frame("restartComponent",
                                     IF c \in was THEN "shutdown" ELSE "initialize", c)>>
          /\ RestartStageDone(t) =>
               /\ others(TopSvc(t))
               /\ IF Top(World, t).at = "shutdown"
                    THEN /\ TopSvc(t) \notin is
                         /\ thr'[t].stack =
                              <<Frame("restartComponent", "initialize", TopSvc(t))>>
                    ELSE /\ TopSvc(t) \in is
                         /\ returned' = [op |-> "restartComponent", svc |-> TopSvc(t),
                                          res |-> "ok"]
          /\ RestartStageFails(t) =>
               /\ others(TopSvc(t)) /\ initializedComponents' = initializedComponents
               /\ returned' = [op |-> "restartComponent", svc |-> TopSvc(t),
                                res |-> "SystemError"]
    ]_vars

\* logger and eventBus are initialized; restartComponent("eventBus") has
\* shut eventBus down and its re-initialization has failed: logger is
\* still initialized, eventBus is not
C26_Witness ==
  /\ returned = [op |-> "restartComponent", svc |-> "eventBus", res |-> "SystemError"]
  /\ "logger" \in Range(initializedComponents)
  /\ "eventBus" \notin Range(initializedComponents)
  /\ "config" \in Range(initializedComponents)
  /\ initialized

\* C27: the computed order is a function of the registration sequence,
\* and nodes that no dependency constrains appear in registration
\* order: two registered nodes neither of which depends on the other,
\* directly or through other nodes, are ordered as they were registered
\* (so nodes without dependencies keep their registration order).
C27_UnconstrainedInRegistrationOrder ==
  LET inOrder(names, graph, order) ==
        \A i, j \in DOMAIN names :
          LET x == names[i]
              y == names[j]
              E == DependsOn(names, graph)
          IN (i < j /\ y \notin Reach(E, {x}, {}) /\ x \notin Reach(E, {y}, {}))
               => IndexOf(order, x) < IndexOf(order, y)
  IN /\ (outcome.op = "calculateOrder" /\ outcome.ok)
          => /\ inOrder(services, dependencyGraph, startOrder)
             /\ startOrder = calculateOrder(services, dependencyGraph).order
             /\ stopOrder = Reverse(startOrder)
     /\ (outcome.op = "calculateInitializationOrder" /\ outcome.ok)
          => /\ inOrder(components, componentDeps, initializationOrder)
             /\ initializationOrder =
                  calculateInitializationOrder(components, componentDeps).order

\* C27 as it holds: the computed order is the depth-first post-order of
\* the nodes taken in registration order.  A node registered later than
\* another precedes it only when it is a dependency, direct or through
\* other nodes, of a node registered no later than that other; so nodes
\* that neither have registered dependencies nor are depended upon keep
\* their registration order, and when no node has a registered
\* dependency the order is the registration order.  The stored orders
\* are that order and its reverse.
C27_OrderFollowsRegistration ==
  LET follows(names, graph, order) ==
        LET E == DependsOn(names, graph)
            loose == {n \in Range(names) : \A e \in E : n # e[1] /\ n # e[2]}
        IN /\ \A i, j \in DOMAIN names :
                (i < j /\ IndexOf(order, names[j]) < IndexOf(order, names[i]))
                  => \E k \in 1..i : names[j] \in Reach(E, {names[k]}, {})
           /\ \A i, j \in DOMAIN names :
                (i < j /\ names[i] \in loose /\ names[j] \in loose)
                  => IndexOf(order, names[i]) < IndexOf(order, names[j])
           /\ E = {} => order = names
  IN /\ (outcome.op = "calculateOrder" /\ outcome.ok)
          => /\ follows(services, dependencyGraph, startOrder)
             /\ stopOrder = Reverse(startOrder)
     /\ (outcome.op = "calculateInitializationOrder" /\ outcome.ok)
          => follows(components, componentDeps, initializationOrder)

\* A depends on C, B and C on nothing; registered A, B, C, started C, A, B
C27_Witness ==
  /\ outcome.op = "calculateOrder" /\ outcome.ok
  /\ services = <<"A", "B", "C">>
  /\ dependencyGraph = [n \in NodeNames |-> IF n = "A" THEN <<"C">> ELSE <<>>]
  /\ startOrder = <<"C", "A", "B">>
  /\ stopOrder = <<"B", "A", "C">>

\* C28: a dependency name that is not registered in the same manager or
\* initializer is skipped by the order computation and is not fatal: the
\* computation does not fail, the order holds exactly the registered
\* nodes, the declaring node among them, and the declaring node is
\* started by startAll() or initialized by initialize() like any other.
C28_UnregisteredDependencySkipped ==
  [][LET missing(names, graph) ==
           {n \in Range(names) : Range(graph[n]) \ Range(names) # {}}
     IN /\ outcome'.ok
        \* registerService recomputes the order: the registered names
        /\ \A s \in MgrServices :
             SkipRegisterService(s) =>
               /\ Len(startOrder') = Len(services')
               /\ Range(startOrder') = Range(services')
               /\ missing(services', dependencyGraph') \subseteq Range(startOrder')
        /\ \A t \in Threads :
             \* startAll() has returned: every registered service was
             \* started (one that failed is in Error and is optional)
             /\ (thr[t].op = "startAll" /\ ~Running(t)' /\ returned'.res = "ok") =>
                  \A s \in Range(services) :
                    \/ state'[s] = "running"
                    \/ state'[s] = "error" /\ ~isRequired[s]
             \* initialize() computes its order
             /\ (CallInitializerInitialize(t) /\ ~initialized) =>
                  /\ Len(initializationOrder') = Len(components)
                  /\ Range(initializationOrder') = Range(components)
                  /\ missing(components, componentDeps) \subseteq Range(initializationOrder')
             \* and initializes every component of it in turn
             /\ ComponentInitDone(t) =>
                  /\ TopSvc(t) \in Range(initializedComponents')
                  /\ Top(World, t).at' = "health" =>
                       Range(initializedComponents') = Range(components)
    ]_vars

\* B, whose dependency A is not registered, and C were started by
\* startAll() in that order
C28_Witness ==
  /\ services = <<"C", "B">>
  /\ startOrder = <<"B", "C">>
  /\ returned = [op |-> "startAll", svc |-> NoName, res |-> "ok"]
  /\ state["B"] = "running" /\ state["C"] = "running" /\ state["A"] = "stopped"
  /\ \A t \in Threads : ~Running(t)

\* C29: with healthCheckInterval = 0 no health-check timer is ever
\* created for the service and no tick ever runs; with
\* enableAutoRestart = false a tick whose health check fails calls no
\* restart(), leaves the state of the service as it is and emits no
\* service:failed: the callback just returns.
C29_DisabledChecksDoNothing ==
  [][/\ config.healthCheckInterval = 0 =>
          \A s \in LifeServices, t \in Threads :
            /\ timers'[s] = 0 /\ ~handle'[s]
            /\ thr'[t].op # "tick"
            /\ ~TimerFires(t, s)
     /\ ~config.enableAutoRestart =>
          \A t \in Threads :
            LET quiet == /\ state' = state
                         /\ restartCount' = restartCount
                         /\ errorCount' = errorCount
                         /\ lastEvent' = lastEvent
                         /\ timers' = timers
                         /\ lastEvent'[2] # "service:failed"
                         /\ \A u \in Threads \ {t} : thr'[u] = thr[u]
            IN /\ \A s \in LifeServices :
                    TimerFires(t, s) =>
                      /\ quiet
                      /\ IF state[s] = "running"
                           THEN thr'[t].stack = <<Frame("tick", "healthCheck", s)>>
                           ELSE ~Running(t)'
               /\ HealthCheckDone(t, FALSE) =>
                    /\ quiet
                    /\ ~Running(t)'
                    /\ returned' = [op |-> "tick", svc |-> thr[t].svc, res |-> "ok"]
    ]_vars

\* auto-restart is off and a tick has run to its end on the Running
\* service, whose timer is still alive: nothing was restarted
C29_Witness ==
  /\ ~config.enableAutoRestart
  /\ config.healthCheckInterval = DefaultHealthCheckInterval
  /\ returned = [op |-> "tick", svc |-> "S", res |-> "ok"]
  /\ state["S"] = "running"
  /\ timers["S"] = 1
  /\ restartCount["S"] = 0
  /\ lastEvent = <<"S", "service:started">>
  /\ \A t \in Threads : ~Running(t)

\* C30: after any sequence of registerService and unregisterService
\* calls, those that raise included, startOrder is a permutation of the
\* names of the services currently registered (a call that raises
\* leaves registry, dependency graph and both orders as they were).
C30_StartOrderIsPermutation ==
  /\ Len(startOrder) = Len(services)
  /\ Range(startOrder) = Range(services)
  /\ DOMAIN dependencyGraph = Range(services)

\* C31: startAll() calls start() on a service only when every registered
\* dependency of that service is in state Running; in particular a
\* dependent of a failed non-required service is not started.
C31_StartedOnlyWhenDependenciesRunning ==
  [][\A s \in Range(services) :
       (state[s] # "starting" /\ state'[s] = "starting") =>
         \A i \in DOMAIN dependencyGraph[s] :
           dependencyGraph[s][i] \in Range(services)
             => state[dependencyGraph[s][i]] = "running"
    ]_vars

\* C32: every service that is registered with the manager by the time
\* startAll() returns normally has had start() invoked on it by that
\* startAll(): none of them is still in state Stopped, also when it was
\* registered while startAll() was iterating.
C32_StartAllStartsEveryRegistered ==
  [][\A t \in Threads :
       (thr[t].op = "startAll" /\ Running(t) /\ thr'[t] = IdleThread
          /\ returned'.res = "ok") =>
         \A s \in Range(services') : state'[s] # "stopped"
    ]_vars

\* C34: in every reachable state a service has at most one live
\* health-check timer, and none while it is in state Stopped or Error.
C34_OneTimerOnlyWhileUp ==
  \A s \in DOMAIN timers :
    /\ timers[s] <= 1
    /\ state[s] \in {"stopped", "error"} => timers[s] = 0

\* C35: once the restart limit has been reached and service:failed has
\* been emitted for a service, later health-check ticks do nothing:
\* service:failed is emitted at most once until the service is started
\* again.
C35_FailedEmittedOnce ==
  \A s \in DOMAIN failedEvents : failedEvents[s] <= 1

\* C36: CoordinationService holds a coordination manager, and so delegates
\* its calls, only while it is Running or Stopping: in states Stopped and
\* Error, including after a failed start, it holds none and every call
\* fails with 'Coordination manager not initialized'.
C36_NoManagerWhenDown ==
  state[CoordinationServiceName] \in {"stopped", "error"} => ~coordinationManager

\* C37: whenever BackendInitializer.initialize() raises for a required
\* component's failure, a dependency cycle or a missing critical component,
\* no component is left initialized and the initializer is not marked
\* initialized, so that initialize() may be called again; once initialize()
\* has succeeded, a further initialize() raises at once and initializes
\* nothing.
C37_RaiseLeavesNothingInitialized ==
  [][\A t \in Threads :
       /\ ((CallInitializerInitialize(t) \/ thr[t].op = "initializer.initialize")
             /\ thr[t] # thr'[t] /\ thr'[t] = IdleThread
             /\ returned'.res # "ok") =>
            /\ returned'.res = "InitializationError"
            /\ IF initialized
                 THEN /\ CallInitializerInitialize(t)
                      /\ UNCHANGED <<initialized, initializedComponents,
                                     initializationOrder, shutdownCalls>>
                 ELSE /\ CleanupDone(t)
                      /\ initializedComponents' = <<>>
                      /\ ~initialized'
       /\ (CallInitializerInitialize(t) /\ initialized) =>
            /\ thr'[t] = IdleThread
            /\ returned'.res = "InitializationError"
    ]_vars

C37_Witness ==
  /\ returned = [op |-> "initializer.initialize", svc |-> NoName,
                 res |-> "InitializationError"]
  /\ Quiet
  /\ components = <<"logger", "config", "eventBus">>
  /\ shutdownCalls = <<"logger", "config">>
  /\ initializedComponents = <<>>
  /\ ~initialized

\* C38: after any sequence of registerComponent, initialize and
\* restartComponent calls, a shutdown() in which no component shutdown
\* fails leaves no component marked initialized: a component that is
\* still initialized when shutdown() returns is one whose shutdown() this
\* call invoked (and saw fail).
C38_ShutdownLeavesNoneInitialized ==
  [][\A t \in Threads :
       ((CallShutdown(t) \/ thr[t].op = "initializer.shutdown")
          /\ thr[t] # thr'[t] /\ thr'[t] = IdleThread) =>
         Range(initializedComponents') \subseteq Range(shutdownCalls')
    ]_vars

\* C39: two overlapping calls of initialize() never both run the
\* initialization: no component's initialize() hook is awaited by two
\* calls at once.
C39_OverlappingInitializeRunsOnce ==
  \A t, u \in Threads :
    (t # u /\ AtAwait(t, "initialize", {"component"}) /\ AtAwait(u, "initialize", {"component"}))
      => TopSvc(t) # TopSvc(u)

\* C40: in any interleaving of unregisterService() with start(), a service
\* that is Running, having been started by the manager, is still in the
\* registry and in stopOrder, where stopAll() reaches it.
C40_RunningServiceStaysRegistered ==
  \A s \in StopServices :
    state[s] = "running" => (s \in Range(services) /\ s \in Range(stopOrder))

====
